---------------------------- MODULE Spec2Model ----------------------------
(***************************************************************************)
(* Streaming response normalizer of the OpenAI-compatible content          *)
(* generator (packages/core/src/core/openAICompatibleContentGenerator.ts). *)
(*                                                                         *)
(* One run of the async generator `generate` of generateContentStream is   *)
(* modelled: the transport hands over provider frames one at a time, the   *)
(* loop body turns each frame into zero, one or two canonical events, and  *)
(* the code after the loop may add a fallback event when the transport     *)
(* ends.                                                                   *)
(*                                                                         *)
(* Strings are sequences of one-character strings, so that concatenation   *)
(* and JSON parsing are computed and not assumed.  A falsy string          *)
(* (null, undefined, '') is the empty sequence or the empty string.        *)
(***************************************************************************)
EXTENDS Integers, Sequences, FiniteSets, TLC

(***************************************************************************)
(* Bounds of the model                                                     *)
(***************************************************************************)
\* number of frames the transport delivers in one stream
MaxFrames == 3
\* largest tool-call index a fragment carries
MaxIndex == 1

(***************************************************************************)
(* Values                                                                  *)
(***************************************************************************)
\* the value of an unset finishReason
Undefined == "undefined"
\* what JSON.parse raises on text that is not JSON
SyntaxError == <<"SyntaxError">>
\* the parsed empty object {}
EmptyObject == <<"obj">>
\* the parsed number 1
NumberOne == <<"num">>

RECURSIVE Flatten(_)
\* concatenation of a sequence of strings (the += of the accumulators)
Flatten(ss) ==
  IF ss = <<>> THEN <<>> ELSE Head(ss) \o Flatten(Tail(ss))

(***************************************************************************)
(* JSON.parse on the sub-language  value ::= 1 | {} | {k value}            *)
(* where the character "k" stands for the member prefix  "k":              *)
(***************************************************************************)
RECURSIVE ParseValue(_)
ParseValue(s) ==
  IF s = <<>> THEN [ok |-> FALSE, value |-> SyntaxError, rest |-> <<>>]
  ELSE IF Head(s) = "1"
    THEN [ok |-> TRUE, value |-> NumberOne, rest |-> Tail(s)]
  ELSE IF Head(s) = "{" /\ Len(s) >= 2 /\ s[2] = "}"
    THEN [ok |-> TRUE, value |-> EmptyObject, rest |-> SubSeq(s, 3, Len(s))]
  ELSE IF Head(s) = "{" /\ Len(s) >= 2 /\ s[2] = "k"
    THEN LET m == ParseValue(SubSeq(s, 3, Len(s)))
         IN  IF m.ok /\ m.rest # <<>> /\ Head(m.rest) = "}"
               THEN [ok |-> TRUE, value |-> <<"obj", m.value>>,
                     rest |-> Tail(m.rest)]
               ELSE [ok |-> FALSE, value |-> SyntaxError, rest |-> <<>>]
  ELSE [ok |-> FALSE, value |-> SyntaxError, rest |-> <<>>]

\* JSON.parse(text): the value, or SyntaxError when the text is not JSON
JSONParse(s) ==
  LET r == ParseValue(s)
  IN  IF r.ok /\ r.rest = <<>> THEN r.value ELSE SyntaxError

(***************************************************************************)
(* mapFinishReason: provider reason -> canonical FinishReason              *)
(***************************************************************************)
mapFinishReason(reason) ==
  IF reason = "" THEN Undefined
  ELSE IF reason = "stop" THEN "STOP"
  ELSE IF reason = "length" THEN "MAX_TOKENS"
  ELSE IF reason = "content_filter" THEN "SAFETY"
  ELSE IF reason \in {"function_call", "tool_calls"} THEN "STOP"
  ELSE "OTHER"

\* a || b on finish reasons
OrElse(a, b) == IF a \in {Undefined, ""} THEN b ELSE a

(***************************************************************************)
(* Parts, candidates, events                                               *)
(***************************************************************************)
TextPart(t) ==
  [type |-> "text", text |-> t, name |-> <<>>, args |-> EmptyObject]

FunctionCallPart(n, a) ==
  [type |-> "functionCall", text |-> <<>>, name |-> n, args |-> a]

\* an emitted GenerateContentResponse; `chunk` is _chunkCount at the yield
\* (0 after the loop) and `slots` the accumulator index of each part
\* (bookkeeping of the model, not a field of the response)
Response(kind, parts, finishReason, usageMetadata, chunkCount, slots) ==
  [kind |-> kind, parts |-> parts, finishReason |-> finishReason,
   usageMetadata |-> usageMetadata, chunk |-> chunkCount, slots |-> slots]

(***************************************************************************)
(* accumulatedToolCalls: a JavaScript array that may have holes.  Index i  *)
(* of the array is position i + 1 of the sequence.                         *)
(***************************************************************************)
Hole == [present |-> FALSE, id |-> <<>>, name |-> <<>>, arguments |-> <<>>]

\* String(index), for the indices of a run
IndexText(index) ==
  CASE index = 0 -> "0" [] index = 1 -> "1" [] index = 2 -> "2"
    [] OTHER -> "3"

\* `call_${Date.now()}_${index}`, the clock reading "0"
SynthesizedId(index) ==
  <<"c", "a", "l", "l", "_", "0", "_", IndexText(index)>>

\* { id: toolCallDelta.id || `call_${Date.now()}_${index}`,
\*   type: 'function', function: { name: '', arguments: '' } }
NewToolCall(frag) ==
  [present |-> TRUE,
   id |-> IF frag.id # <<>> THEN frag.id ELSE SynthesizedId(frag.index),
   name |-> <<>>, arguments |-> <<>>]

\* !accumulatedToolCalls[index]
IsMissing(arr, index) == index + 1 > Len(arr) \/ ~arr[index + 1].present

\* accumulatedToolCalls[index] = slot (the array grows, leaving holes)
SetAt(arr, index, slot) ==
  [i \in 1..(IF index + 1 > Len(arr) THEN index + 1 ELSE Len(arr)) |->
     IF i = index + 1 THEN slot
     ELSE IF i <= Len(arr) THEN arr[i] ELSE Hole]

\* one pass of the body of  for (const toolCallDelta of delta.tool_calls)
AddFragment(arr, frag) ==
  LET index == frag.index
      init  == IF IsMissing(arr, index) THEN SetAt(arr, index, NewToolCall(frag))
               ELSE arr
      old   == init[index + 1]
  IN  SetAt(init, index,
            [present |-> TRUE,
             id |-> old.id,
             name |-> old.name \o frag.name,
             arguments |-> old.arguments \o frag.arguments])

RECURSIVE AddFragments(_, _)
\* the whole loop over delta.tool_calls
AddFragments(arr, frags) ==
  IF frags = <<>> THEN arr
  ELSE AddFragments(AddFragment(arr, Head(frags)), Tail(frags))

\* some element of the array is a hole: `toolCall.function` of undefined
HasHole(arr) == \E i \in 1..Len(arr) : ~arr[i].present

\* the functionCall part pushed for one accumulated call
FinalizeCall(toolCall) ==
  LET text == IF toolCall.arguments = <<>> THEN <<"{", "}">>
              ELSE toolCall.arguments
      args == JSONParse(text)
  IN  FunctionCallPart(toolCall.name,
                       IF args = SyntaxError THEN EmptyObject ELSE args)

RECURSIVE FinalizeFrom(_, _)
\* indices, from i on, of the calls that get a part (those with a name)
FinalizeFrom(arr, i) ==
  IF i > Len(arr) THEN <<>>
  ELSE (IF arr[i].name # <<>> THEN <<i - 1>> ELSE <<>>)
         \o FinalizeFrom(arr, i + 1)

\* candidate.content.parts after the loop over accumulatedToolCalls
FinalizedSlots(arr) == FinalizeFrom(arr, 1)

FinalizedParts(arr) ==
  LET slots == FinalizedSlots(arr)
  IN  [j \in 1..Len(slots) |-> FinalizeCall(arr[slots[j] + 1])]

(***************************************************************************)
(* Usage accounting                                                        *)
(***************************************************************************)
\* a frame without a usage object
NoUsage ==
  [present |-> FALSE, prompt_tokens |-> 0, completion_tokens |-> 0,
   total_tokens |-> 0]

\* the usage object of a frame (chunk.usage, else choices[0].usage)
Usage(p, c, t) ==
  [present |-> TRUE, prompt_tokens |-> p, completion_tokens |-> c,
   total_tokens |-> t]

\* let accumulatedUsage = { 0, 0, 0 }
ZeroUsage ==
  [prompt_tokens |-> 0, completion_tokens |-> 0, total_tokens |-> 0]

\* a field-wise merge: a field the frame reports as zero keeps its old value
UpdateUsageMerge(accumulated, chunk) ==
  IF chunk.usage.present
    THEN [prompt_tokens |->
            IF chunk.usage.prompt_tokens > 0
              THEN chunk.usage.prompt_tokens ELSE accumulated.prompt_tokens,
          completion_tokens |->
            IF chunk.usage.completion_tokens > 0
              THEN chunk.usage.completion_tokens
              ELSE accumulated.completion_tokens,
          total_tokens |->
            IF chunk.usage.total_tokens > 0
              THEN chunk.usage.total_tokens ELSE accumulated.total_tokens]
    ELSE accumulated

\* the  if (chunk.usage) ... else if (chunk.choices[0]?.usage)  statement
UpdateUsage(accumulated, chunk) ==
  IF chunk.usage.present
    THEN [prompt_tokens |-> chunk.usage.prompt_tokens,
          completion_tokens |-> chunk.usage.completion_tokens,
          total_tokens |-> chunk.usage.total_tokens]
    ELSE accumulated

\* encode(content).length: one token per character of the model's alphabet
EncodeLength(content) == Len(content)

\* TokenEstimator.estimateTotalTokens
estimateTotalTokens(prompt, completion) ==
  [promptTokens |-> EncodeLength(prompt),
   completionTokens |-> EncodeLength(completion),
   totalTokens |-> EncodeLength(prompt) + EncodeLength(completion)]

\* a response whose usageMetadata was not assigned
NoUsageMetadata ==
  [set |-> FALSE, promptTokenCount |-> 0, candidatesTokenCount |-> 0,
   totalTokenCount |-> 0]

\* the provider's numbers copied whatever their total, never an estimate
UsageMetadataProviderOnly(accumulated, prompt, completion) ==
  [set |-> TRUE,
   promptTokenCount |-> accumulated.prompt_tokens,
   candidatesTokenCount |-> accumulated.completion_tokens,
   totalTokenCount |-> accumulated.total_tokens]

\* usageMetadata of a terminal response: the provider's numbers when their
\* total is positive, the local estimate otherwise
UsageMetadata(accumulated, prompt, completion) ==
  IF accumulated.total_tokens > 0
    THEN [set |-> TRUE,
          promptTokenCount |-> accumulated.prompt_tokens,
          candidatesTokenCount |-> accumulated.completion_tokens,
          totalTokenCount |-> accumulated.total_tokens]
    ELSE LET estimatedTokens == estimateTotalTokens(prompt, completion)
         IN  [set |-> TRUE,
              promptTokenCount |-> estimatedTokens.promptTokens,
              candidatesTokenCount |-> estimatedTokens.completionTokens,
              totalTokenCount |-> estimatedTokens.totalTokens]

(***************************************************************************)
(* Frames delivered by the transport                                       *)
(***************************************************************************)
\* a fragment with an id member; the empty id stands for an absent one
FragmentWithId(i, id, n, a) ==
  [index |-> i, id |-> id, name |-> n, arguments |-> a]

Fragment(i, n, a) == FragmentWithId(i, <<>>, n, a)

\* shape is "nochoices" (choices missing or empty), "nodelta" (choices[0]
\* without delta) or "ok"
Frame(shape, content, finish, frags, usage) ==
  [shape |-> shape, content |-> content, finish_reason |-> finish,
   tool_calls |-> frags, usage |-> usage]

ProviderReasons ==
  {"stop", "length", "content_filter", "function_call", "tool_calls", "eos"}

ContentSet == {<<>>, <<"a">>, <<"b">>}

NameSet == {<<>>, <<"f">>, <<"g">>}

ArgsSet == {<<>>, <<"{">>, <<"}">>, <<"1">>}

\* the last one is a usage object whose total is absent or zero
UsageSet == {Usage(1, 1, 2), Usage(2, 2, 5), Usage(1, 1, 0)}

\* the outbound prompt text of the request
PromptSet == {<<>>, <<"u", "q">>}

FragmentSet ==
  {Fragment(i, n, a) : i \in 0..MaxIndex, n \in NameSet, a \in ArgsSet}

SkippedFrames ==
  {Frame("nochoices", <<>>, "", <<>>, NoUsage)}
    \cup {Frame("nodelta", <<>>, r, <<>>, NoUsage) : r \in {"", "stop"}}
    \cup {Frame("nodelta", <<>>, "stop", <<>>, Usage(1, 1, 2))}

\* frames without tool calls: any content with any finish marker
TextFrames ==
  {Frame("ok", c, r, <<>>, NoUsage) :
     c \in ContentSet, r \in ProviderReasons \cup {""}}

\* frames carrying a usage object
UsageFrames ==
  {Frame("ok", c, r, <<>>, u) :
     c \in {<<>>, <<"a">>}, r \in {"", "stop"}, u \in UsageSet}

\* frames carrying one tool-call fragment
ToolFrames ==
  {Frame("ok", <<>>, r, <<g>>, NoUsage) :
     r \in {"", "tool_calls"}, g \in FragmentSet}

\* frames carrying text and a fragment, or two fragments
MixedFrames ==
  {Frame("ok", <<"a">>, r, <<Fragment(0, <<"f">>, <<>>)>>, NoUsage) :
      r \in {"", "stop"}}
    \cup {Frame("ok", <<>>, r,
                <<Fragment(0, <<"f">>, <<"{", "}">>),
                  Fragment(1, <<"g">>, <<"{", "k", "1", "}">>)>>, NoUsage) :
            r \in {"", "tool_calls"}}

FrameSet ==
  SkippedFrames \cup TextFrames \cup UsageFrames \cup ToolFrames
    \cup MixedFrames

(***************************************************************************)
(* State of one run of generate                                            *)
(***************************************************************************)
VARIABLES
  pc,                           \* "request", "open", "yield", "done"
                                \* (returned), "thrown", "failed",
                                \* "cancelled", "rejected", "returned", "idle"
  consumed,                     \* the frames pulled from the transport
  promptContent,
  hasYielded,
  accumulatedToolCalls,
  accumulatedUsage,
  accumulatedCompletionContent,
  events,                       \* the responses yielded so far
  at,                           \* the yield the generator is suspended at
  response,                     \* the HTTP response of the request
  error,                        \* the error the caller received
  lockReleases,                 \* calls of reader.releaseLock()
  streamLogger,                 \* calls of finish() and removeInstance()
  instances,                    \* StreamLogger.instances (its keys)
  other,                        \* a second stream of the same process
  dpc,                          \* the frame decoder: "read", "yield",
                                \* "returned", "failed", "closed", "idle"
  wire,                         \* bytes of the body not yet read
  reads,                        \* the values reader.read() returned
  lines,                        \* lines of the last read not yet examined
  frames,                       \* the values the decoder yielded
  request,                      \* the request body under construction
  resolution,                   \* a model name and what it resolved to
  openAIModelsConfig            \* the cached model configuration, or null

genVars == <<pc, consumed, promptContent, hasYielded, accumulatedToolCalls,
             accumulatedUsage, accumulatedCompletionContent, events>>

lifeVars == <<at, response, error, lockReleases, streamLogger, instances>>

decVars == <<dpc, wire, reads, lines, frames>>

pureVars == <<request, resolution, openAIModelsConfig>>

vars == <<genVars, lifeVars, other, decVars, pureVars>>

\* no request body is being built
NoRequest ==
  [built |-> "none", contents |-> <<>>, tools |-> <<>>, messages |-> <<>>,
   body |-> <<>>]

\* no model name is being resolved
NoResolution ==
  [fn |-> "none", requestedModel |-> <<>>, previewFeaturesEnabled |-> FALSE,
   isInFallbackMode |-> FALSE, modelAlias |-> <<>>, providerModel |-> <<>>,
   results |-> <<>>]

\* an alias the configuration does not define
NoAlias == [set |-> FALSE, value |-> <<>>]

\* getDefaultOpenAIModelsConfig: no default model, no model and no alias
DefaultOpenAIModelsConfig ==
  [defaultModel |-> <<>>, models |-> <<>>,
   aliases |-> [standard |-> NoAlias, pro |-> NoAlias,
                multimodal |-> NoAlias]]

\* `let openAIModelsConfig = null`: nothing was loaded yet
NullConfig == [loaded |-> FALSE, config |-> DefaultOpenAIModelsConfig]

\* neither the request builder nor the model resolver takes part in the run
IdlePure ==
  /\ request = NoRequest
  /\ resolution = NoResolution
  /\ openAIModelsConfig = NullConfig

\* no error was raised
NoError == [kind |-> "none", status |-> 0, body |-> <<>>]

\* the response of a request that succeeded, and no response yet
OkResponse == [status |-> 200, body |-> <<>>]

NoResponse == [status |-> 0, body |-> <<>>]

\* const streamId = `stream_${Date.now()}_${Math.random()...}`
StreamId == "stream_1"

\* a stream that does not exist in the run
IdleStream ==
  [pc |-> "idle", streamId |-> StreamId, consumed |-> <<>>,
   promptContent |-> <<>>, hasYielded |-> FALSE,
   accumulatedToolCalls |-> <<>>, accumulatedUsage |-> ZeroUsage,
   accumulatedCompletionContent |-> <<>>, events |-> <<>>]

\* the locals of generate when its body starts
InitGenerate ==
  /\ consumed = <<>>
  /\ hasYielded = FALSE
  /\ accumulatedToolCalls = <<>>
  /\ accumulatedUsage = ZeroUsage
  /\ accumulatedCompletionContent = <<>>
  /\ events = <<>>
  /\ at = "none"
  /\ error = NoError
  /\ lockReleases = 0
  /\ streamLogger = [finished |-> 0, removed |-> 0]

\* no frame decoder in the run
IdleDecoder ==
  /\ dpc = "idle"
  /\ wire = <<>>
  /\ reads = <<>>
  /\ lines = <<>>
  /\ frames = <<>>

\* a stream whose request succeeded and whose generate has started: the
\* reader is locked and the StreamLogger is registered
Init ==
  /\ pc = "open"
  /\ promptContent \in PromptSet
  /\ InitGenerate
  /\ response = OkResponse
  /\ instances = {StreamId}
  /\ other = IdleStream
  /\ IdleDecoder
  /\ IdlePure

\* reader.releaseLock() in the finally of the decoder
ReleaseLock == lockReleases' = lockReleases + 1

\* streamLogger.finish(); StreamLogger.removeInstance(streamId)
FinishLogger ==
  /\ streamLogger' = [finished |-> streamLogger.finished + 1,
                      removed |-> streamLogger.removed + 1]
  /\ instances' = instances \ {StreamId}

\* the frame is skipped by one of the two `continue`s
IsSkipped(chunk) == chunk.shape # "ok"

\* const isFinished = chunk.choices[0]?.finish_reason
IsFinished(chunk) == chunk.finish_reason # ""

\* the two branches tested in the other order: a frame with content and a
\* finish marker yields the empty terminal event and its content is lost
ContentEventsFinishFirst(chunk, n, toolCalls, usage, prompt, completion) ==
  IF IsFinished(chunk) /\ Len(toolCalls) = 0
    THEN <<Response("empty", <<TextPart(<<>>)>>,
                    OrElse(mapFinishReason(chunk.finish_reason), "STOP"),
                    UsageMetadata(usage, prompt, completion),
                    n, <<>>)>>
  ELSE IF chunk.content # <<>>
    THEN <<Response("text", <<TextPart(chunk.content)>>,
                    IF IsFinished(chunk)
                      THEN OrElse(mapFinishReason(chunk.finish_reason), "STOP")
                      ELSE Undefined,
                    IF IsFinished(chunk)
                      THEN UsageMetadata(usage, prompt, completion)
                      ELSE NoUsageMetadata,
                    n, <<>>)>>
  ELSE <<>>

\* what the  if (delta.content) ... else if (isFinished && length === 0)
\* statement yields; `completion` is accumulatedCompletionContent after
\* the frame's content was appended
ContentEvents(chunk, n, toolCalls, usage, prompt, completion) ==
  IF chunk.content # <<>>
    THEN <<Response("text", <<TextPart(chunk.content)>>,
                    IF IsFinished(chunk)
                      THEN OrElse(mapFinishReason(chunk.finish_reason), "STOP")
                      ELSE Undefined,
                    IF IsFinished(chunk)
                      THEN UsageMetadata(usage, prompt, completion)
                      ELSE NoUsageMetadata,
                    n, <<>>)>>
  ELSE IF IsFinished(chunk) /\ Len(toolCalls) = 0
    THEN <<Response("empty", <<TextPart(<<>>)>>,
                    OrElse(mapFinishReason(chunk.finish_reason), "STOP"),
                    UsageMetadata(usage, prompt, completion),
                    n, <<>>)>>
  ELSE <<>>

\* the response yielded by  if (isFinished && accumulatedToolCalls.length > 0)
ToolCallEvent(chunk, chunkCount, toolCalls, usage, prompt, completion) ==
  Response("tool", FinalizedParts(toolCalls),
           OrElse(chunk.finish_reason, "STOP"),
           UsageMetadata(usage, prompt, completion),
           chunkCount, FinalizedSlots(toolCalls))

\* the usage object is taken before the two tests: a skipped frame that
\* carries usage replaces the snapshot
SkipChunkUsageFirst(chunk) ==
  /\ pc = "open"
  /\ Len(consumed) < MaxFrames
  /\ IsSkipped(chunk)
  /\ consumed' = Append(consumed, chunk)
  /\ accumulatedUsage' = UpdateUsage(accumulatedUsage, chunk)
  /\ UNCHANGED <<pc, promptContent, hasYielded, accumulatedToolCalls,
                 accumulatedCompletionContent, events>>
  /\ UNCHANGED <<lifeVars, other, decVars>>
  /\ UNCHANGED pureVars

\* a frame without choices or without delta: continue
SkipChunk(chunk) ==
  /\ pc = "open"
  /\ Len(consumed) < MaxFrames
  /\ IsSkipped(chunk)
  /\ consumed' = Append(consumed, chunk)
  /\ UNCHANGED <<pc, promptContent, hasYielded, accumulatedToolCalls,
                 accumulatedUsage, accumulatedCompletionContent, events>>
  /\ UNCHANGED <<lifeVars, other, decVars>>
  /\ UNCHANGED pureVars

\* one pass of the body of  for await (const chunk of stream), the
\* consumer taking every event of the frame; an exception leaves the loop,
\* which closes the decoder, and runs the finally block
ProcessChunk(chunk) ==
  /\ pc = "open"
  /\ Len(consumed) < MaxFrames
  /\ ~IsSkipped(chunk)
  /\ LET chunkCount == Len(consumed) + 1
         usage      == UpdateUsage(accumulatedUsage, chunk)
         completion == accumulatedCompletionContent \o chunk.content
         first      == ContentEvents(chunk, chunkCount, accumulatedToolCalls,
                                     usage, promptContent, completion)
         toolCalls  == AddFragments(accumulatedToolCalls, chunk.tool_calls)
         finalize   == IsFinished(chunk) /\ Len(toolCalls) > 0
         throws     == finalize /\ HasHole(toolCalls)
     IN  /\ consumed' = Append(consumed, chunk)
         /\ accumulatedUsage' = usage
         /\ hasYielded' = (hasYielded \/ chunk.content # <<>>)
         /\ accumulatedCompletionContent' = completion
         /\ accumulatedToolCalls' = toolCalls
         /\ events' =
              events \o first \o
                (IF finalize /\ ~throws
                   THEN <<ToolCallEvent(chunk, chunkCount, toolCalls, usage,
                                        promptContent, completion)>>
                   ELSE <<>>)
         /\ pc' = IF throws THEN "thrown" ELSE "open"
         /\ IF throws
              THEN ReleaseLock /\ FinishLogger
              ELSE UNCHANGED <<lockReleases, streamLogger, instances>>
         /\ UNCHANGED <<promptContent, at, response, error, other, decVars>>
  /\ UNCHANGED pureVars

\* the transport ends (done or [DONE]): the decoder releases the lock,
\* then the code after the loop and the finally block run
StreamEnd ==
  /\ pc = "open"
  /\ events' =
       IF ~hasYielded /\ Len(accumulatedToolCalls) = 0
         THEN Append(events,
                     Response("fallback", <<TextPart(<<>>)>>, "STOP",
                              UsageMetadata(accumulatedUsage, promptContent,
                                            accumulatedCompletionContent),
                              0, <<>>))
         ELSE events
  /\ pc' = "done"
  /\ ReleaseLock
  /\ FinishLogger
  /\ UNCHANGED <<consumed, promptContent, hasYielded, accumulatedToolCalls,
                 accumulatedUsage, accumulatedCompletionContent>>
  /\ UNCHANGED <<at, response, error, other, decVars>>
  /\ UNCHANGED pureVars

Next ==
  \/ \E chunk \in FrameSet : SkipChunk(chunk)
  \/ \E chunk \in FrameSet : ProcessChunk(chunk)
  \/ StreamEnd

Spec == Init /\ [][Next]_vars

(***************************************************************************)
(* A stream whose frames carry a text split into pieces, with finish       *)
(* markers, skipped frames and tool-call fragments in between              *)
(***************************************************************************)
SplitContentSet == {<<>>, <<"a">>, <<"b">>, <<"a", "b">>}

SplitFrames ==
  SkippedFrames
    \cup {Frame("ok", c, r, g, NoUsage) :
            c \in SplitContentSet, r \in {"", "stop"},
            g \in {<<>>, <<Fragment(0, <<"f">>, <<>>)>>,
                   <<Fragment(1, <<"g">>, <<"{">>)>>}}

NextText ==
  \/ \E chunk \in SplitFrames : SkipChunk(chunk)
  \/ \E chunk \in SplitFrames : ProcessChunk(chunk)
  \/ StreamEnd

SpecText == Init /\ [][NextText]_vars

(***************************************************************************)
(* What the transport delivered, computed from the frames alone            *)
(***************************************************************************)
\* the frame reached the loop body and carries a finish marker
IsFinishFrame(n) == ~IsSkipped(consumed[n]) /\ IsFinished(consumed[n])

\* the tool-call fragments of frames 1..n, in arrival order
FragmentsUpTo(n) ==
  Flatten([m \in 1..n |-> consumed[m].tool_calls])

IndicesSeen(n) ==
  {FragmentsUpTo(n)[k].index : k \in 1..Len(FragmentsUpTo(n))}

FragmentsOf(i, n) ==
  SelectSeq(FragmentsUpTo(n), LAMBDA g : g.index = i)

\* the un-fragmented name and argument text of call i after frame n
NameOf(i, n) ==
  Flatten([k \in 1..Len(FragmentsOf(i, n)) |-> FragmentsOf(i, n)[k].name])

ArgsOf(i, n) ==
  Flatten([k \in 1..Len(FragmentsOf(i, n)) |->
             FragmentsOf(i, n)[k].arguments])

\* the members of a set of indices in increasing order
Increasing(S) ==
  SelectSeq([k \in 1..(MaxIndex + 1) |-> k - 1], LAMBDA x : x \in S)

\* the events yielded while frame n was being processed
EventsOfFrame(n) == {e \in 1..Len(events) : events[e].chunk = n}

ToolEventsOfFrame(n) ==
  {e \in EventsOfFrame(n) : events[e].kind = "tool"}

\* the events that carry a finish reason
TerminalEvents ==
  {e \in 1..Len(events) : events[e].finishReason # Undefined}

\* the positions of event e whose part was made from accumulator slot i
PartsFor(e, i) ==
  {p \in 1..Len(events[e].slots) : events[e].slots[p] = i}

TextOf(e) ==
  Flatten([p \in 1..Len(events[e].parts) |-> events[e].parts[p].text])

EmittedText == Flatten([e \in 1..Len(events) |-> TextOf(e)])

DeliveredText ==
  Flatten([n \in 1..Len(consumed) |-> consumed[n].content])

(***************************************************************************)
(* Claims                                                                  *)
(***************************************************************************)

\* C1: when the generator has returned, the emitted event stream contains
\* exactly one event whose finishReason is set, whatever the frames were.
ExactlyOneTerminalEvent ==
  pc = "done" => Cardinality(TerminalEvents) = 1

\* C2: when the generator has returned, the last emitted event has
\* finishReason set.
LastEventIsTerminal ==
  (pc = "done" /\ events # <<>>) =>
    events[Len(events)].finishReason # Undefined

\* C3: consuming the stream never throws, whatever fields the frames lack
\* and whatever indices the tool-call fragments carry.
NeverThrows == pc # "thrown"

AtLeastOneEvent ==
  pc = "done" => Len(events) >= 1


\* the frame is the first one of the stream that signals completion
IsFirstFinishFrame(n) ==
  /\ IsFinishFrame(n)
  /\ \A m \in 1..(n - 1) : ~IsFinishFrame(m)

\* the call the provider sent at index i, un-fragmented, as of frame n
OriginalCall(i, n) == FunctionCallPart(NameOf(i, n), JSONParse(ArgsOf(i, n)))

\* C5: when every tool call seen so far has a name and argument text that
\* is JSON once concatenated, the first finish frame yields one tool-call
\* event that holds exactly one finalized call per index, equal to the
\* un-fragmented original (concatenated name, parsed concatenated args).
ReassemblesEveryCall ==
  \A n \in 1..Len(consumed) :
    ( /\ IsFirstFinishFrame(n)
      /\ IndicesSeen(n) # {}
      /\ \A i \in IndicesSeen(n) :
           /\ NameOf(i, n) # <<>>
           /\ JSONParse(ArgsOf(i, n)) # SyntaxError )
    =>
    /\ Cardinality(ToolEventsOfFrame(n)) = 1
    /\ \A e \in ToolEventsOfFrame(n) : \A i \in IndicesSeen(n) :
         /\ Cardinality(PartsFor(e, i)) = 1
         /\ \A p \in PartsFor(e, i) :
              events[e].parts[p] = OriginalCall(i, n)

\* the indices whose slot of the accumulator holds a named call
AccumulatedIndices ==
  {i \in 0..MaxIndex :
     /\ ~IsMissing(accumulatedToolCalls, i)
     /\ accumulatedToolCalls[i + 1].name # <<>>}

\* C6: over the whole life of a stream that returned, every accumulated
\* tool call is in exactly one event and that event carries a finish
\* reason, and no event was yielded during a frame that has neither
\* content nor a finish marker.
EachCallEmittedOnce ==
  pc = "done" =>
    /\ \A i \in AccumulatedIndices :
         /\ Cardinality({e \in 1..Len(events) : PartsFor(e, i) # {}}) = 1
         /\ \A e \in 1..Len(events) :
              PartsFor(e, i) # {} =>
                /\ Cardinality(PartsFor(e, i)) = 1
                /\ e \in TerminalEvents
    /\ \A n \in 1..Len(consumed) :
         (consumed[n].content = <<>> /\ ~IsFinishFrame(n)) =>
           EventsOfFrame(n) = {}

\* C7: at every finish frame reached with tool-call fragments seen, the
\* terminal tool-call event has exactly one functionCall part per distinct
\* index seen, in increasing index order, hence at least one part.
OnePartPerIndex ==
  \A n \in 1..Len(consumed) :
    (IsFinishFrame(n) /\ IndicesSeen(n) # {}) =>
      /\ Cardinality(ToolEventsOfFrame(n)) = 1
      /\ \A e \in ToolEventsOfFrame(n) :
           /\ events[e].slots = Increasing(IndicesSeen(n))
           /\ Len(events[e].parts) = Len(events[e].slots)
           /\ Len(events[e].parts) > 0
           /\ \A p \in 1..Len(events[e].parts) :
                events[e].parts[p].type = "functionCall"

\* the argument set expected for call i: the parse of its text, {} when
\* there is no text or the text is not JSON
ExpectedArgs(i, n) ==
  IF ArgsOf(i, n) = <<>> \/ JSONParse(ArgsOf(i, n)) = SyntaxError
    THEN EmptyObject
    ELSE JSONParse(ArgsOf(i, n))

\* a named call whose accumulated argument text is not JSON
UnparseableCalls(n) ==
  {i \in IndicesSeen(n) :
     /\ NameOf(i, n) # <<>>
     /\ ArgsOf(i, n) # <<>>
     /\ JSONParse(ArgsOf(i, n)) = SyntaxError}

\* C8: when a named call has argument text that is not JSON at a finish
\* frame, the frame still yields a terminal tool-call event that holds the
\* call with an empty-object argument set and every other named call with
\* its own arguments, and the generator does not throw.
UnparseableArgsStillEmitted ==
  \A n \in 1..Len(consumed) :
    (IsFinishFrame(n) /\ UnparseableCalls(n) # {}) =>
      /\ ~(pc = "thrown" /\ n = Len(consumed))
      /\ \E e \in ToolEventsOfFrame(n) :
           /\ e \in TerminalEvents
           /\ \A i \in IndicesSeen(n) :
                NameOf(i, n) # <<>> =>
                  /\ Cardinality(PartsFor(e, i)) = 1
                  /\ \A p \in PartsFor(e, i) :
                       events[e].parts[p] =
                         FunctionCallPart(NameOf(i, n), ExpectedArgs(i, n))

\* the canonical mapping the claim states
CanonicalReason(reason) ==
  CASE reason = "stop" -> "STOP"
    [] reason = "length" -> "MAX_TOKENS"
    [] reason = "content_filter" -> "SAFETY"
    [] reason \in {"tool_calls", "function_call"} -> "STOP"
    [] OTHER -> "OTHER"

\* C9: an event yielded while a frame is processed has finishReason set
\* if and only if the frame carries a finish marker, and then it is the
\* canonical mapping of the provider's reason, for every kind of event.
FinishReasonIsCanonical ==
  \A e \in 1..Len(events) :
    events[e].chunk > 0 =>
      LET reason == consumed[events[e].chunk].finish_reason
      IN  /\ (events[e].finishReason # Undefined) <=> (reason # "")
          /\ reason # "" => events[e].finishReason = CanonicalReason(reason)

(***************************************************************************)
(* Usage accounting claims                                                 *)
(***************************************************************************)
\* streams of text, finish markers and usage objects
UsageStreamFrames ==
  SkippedFrames
    \cup {Frame("ok", c, r, <<>>, u) :
            c \in {<<>>, <<"a">>}, r \in {"", "stop"},
            u \in UsageSet \cup {NoUsage}}
    \cup {Frame("ok", <<>>, r, <<Fragment(0, <<"f">>, <<>>)>>, NoUsage) :
            r \in {"", "tool_calls"}}

NextUsage ==
  \/ \E chunk \in UsageStreamFrames : SkipChunk(chunk)
  \/ \E chunk \in UsageStreamFrames : ProcessChunk(chunk)
  \/ StreamEnd

SpecUsage == Init /\ [][NextUsage]_vars

\* the frame an event belongs to; the event yielded after the loop
\* belongs to the whole stream
FrameOf(e) ==
  IF events[e].chunk > 0 THEN events[e].chunk ELSE Len(consumed)

\* the usage object of the last of the first n frames that reached the
\* usage statement with a usage object, zero when there is none
RECURSIVE LastUsage(_)
LastUsage(n) ==
  IF n = 0 THEN ZeroUsage
  ELSE IF ~IsSkipped(consumed[n]) /\ consumed[n].usage.present
    THEN [prompt_tokens |-> consumed[n].usage.prompt_tokens,
          completion_tokens |-> consumed[n].usage.completion_tokens,
          total_tokens |-> consumed[n].usage.total_tokens]
  ELSE LastUsage(n - 1)

\* the completion text delivered by the first n frames
TextUpTo(n) ==
  Flatten([k \in 1..n |->
             IF IsSkipped(consumed[k]) THEN <<>> ELSE consumed[k].content])

\* C11: every usage object on an event has totalTokenCount equal to
\* promptTokenCount + candidatesTokenCount, also for provider numbers.
UsageTotalsAddUp ==
  \A e \in 1..Len(events) :
    events[e].usageMetadata.set =>
      events[e].usageMetadata.totalTokenCount =
        events[e].usageMetadata.promptTokenCount
          + events[e].usageMetadata.candidatesTokenCount

\* C12: every event with finishReason set carries a usage object: the
\* provider's snapshot when its total is positive, otherwise the estimate
\* over the prompt and the completion text up to and including the
\* event's frame.
TerminalEventCarriesUsage ==
  \A e \in TerminalEvents :
    LET n        == FrameOf(e)
        snapshot == LastUsage(n)
        meta     == events[e].usageMetadata
    IN  /\ meta.set
        /\ snapshot.total_tokens > 0 =>
             /\ meta.promptTokenCount = snapshot.prompt_tokens
             /\ meta.candidatesTokenCount = snapshot.completion_tokens
             /\ meta.totalTokenCount = snapshot.total_tokens
        /\ snapshot.total_tokens = 0 =>
             /\ meta.promptTokenCount = Len(promptContent)
             /\ meta.candidatesTokenCount = Len(TextUpTo(n))
             /\ meta.totalTokenCount =
                  Len(promptContent) + Len(TextUpTo(n))

\* a terminal event with a provider snapshot and one with a nonzero
\* estimate that counts the text of its own frame
EstimateAndSnapshotWitness ==
  /\ \E e \in TerminalEvents :
       /\ LastUsage(FrameOf(e)).total_tokens = 5
       /\ events[e].usageMetadata.totalTokenCount = 5
  /\ \E e \in TerminalEvents :
       /\ events[e].chunk > 1
       /\ LastUsage(events[e].chunk).total_tokens = 0
       /\ consumed[events[e].chunk].content # <<>>
       /\ Len(TextUpTo(events[e].chunk)) = 2
       /\ events[e].usageMetadata.totalTokenCount = Len(promptContent) + 2
       /\ promptContent # <<>>

MaxLines == 4

\* the number of reads the body is divided into
MaxReads == 2

\* 'data: '
DataPrefix == <<"d", "a", "t", "a", ":", " ">>

\* '[DONE]'
DoneSentinel == <<"[", "D", "O", "N", "E", "]">>

\* payloads: a JSON text, a text that is not JSON, the sentinel
PayloadSet == {<<"1">>, <<"{">>, DoneSentinel}

DataLine(payload) == DataPrefix \o payload \o <<"\n">>

RECURSIVE Bodies(_)
\* the bodies of at most n lines
Bodies(n) ==
  IF n = 0 THEN {<<>>}
  ELSE LET shorter == Bodies(n - 1)
       IN  shorter \cup
             {b \o DataLine(p) : b \in shorter, p \in PayloadSet}

BodySet == Bodies(MaxLines) \ {<<>>}

\* decoder.decode(value): the body is ASCII, one byte per character
Decode(value) == value

RECURSIVE Split(_)
\* chunk.split('\n')
Split(s) ==
  IF \A i \in 1..Len(s) : s[i] # "\n" THEN <<s>>
  ELSE LET i == CHOOSE k \in 1..Len(s) :
                  s[k] = "\n" /\ \A j \in 1..(k - 1) : s[j] # "\n"
       IN  <<SubSeq(s, 1, i - 1)>> \o Split(SubSeq(s, i + 1, Len(s)))

\* line.trim() is not the empty string
NotBlank(line) == \E i \in 1..Len(line) : line[i] \notin {" ", "\t", "\r"}

\* chunk.split('\n').filter((line) => line.trim())
LinesOf(value) == SelectSeq(Split(Decode(value)), NotBlank)

\* line.startsWith('data: ')
StartsWithData(line) ==
  Len(line) >= Len(DataPrefix)
    /\ SubSeq(line, 1, Len(DataPrefix)) = DataPrefix

\* line.slice(6)
Slice6(line) == SubSeq(line, Len(DataPrefix) + 1, Len(line))

\* nothing yielded: the value field of a step that yields nothing
NoFrame == <<"none">>

RECURSIVE DrainFatal(_)
\* a payload that is not JSON ends the stream like the sentinel does
DrainFatal(ls) ==
  IF ls = <<>> THEN [kind |-> "read", value |-> NoFrame, rest |-> <<>>]
  ELSE IF ~StartsWithData(Head(ls)) THEN DrainFatal(Tail(ls))
  ELSE IF Slice6(Head(ls)) = DoneSentinel
    THEN [kind |-> "return", value |-> NoFrame, rest |-> <<>>]
  ELSE IF JSONParse(Slice6(Head(ls))) = SyntaxError
    THEN [kind |-> "return", value |-> NoFrame, rest |-> <<>>]
  ELSE [kind |-> "yield", value |-> JSONParse(Slice6(Head(ls))),
        rest |-> Tail(ls)]

RECURSIVE Drain(_)
\* the  for (const line of lines)  loop from its current line up to the
\* next yield, the return at the sentinel, or the end of the lines
Drain(ls) ==
  IF ls = <<>> THEN [kind |-> "read", value |-> NoFrame, rest |-> <<>>]
  ELSE IF ~StartsWithData(Head(ls)) THEN Drain(Tail(ls))
  ELSE IF Slice6(Head(ls)) = DoneSentinel
    THEN [kind |-> "return", value |-> NoFrame, rest |-> <<>>]
  ELSE IF JSONParse(Slice6(Head(ls))) = SyntaxError
    THEN Drain(Tail(ls))
  ELSE [kind |-> "yield", value |-> JSONParse(Slice6(Head(ls))),
        rest |-> Tail(ls)]

\* the decoder runs from a resumption to its next suspension
RunDecoder(ls) ==
  LET step == Drain(ls)
  IN  /\ lines' = step.rest
      /\ frames' = IF step.kind = "yield"
                     THEN Append(frames, step.value) ELSE frames
      /\ dpc' = IF step.kind = "yield" THEN "yield"
                ELSE IF step.kind = "return" THEN "returned" ELSE "read"
      /\ IF step.kind = "return" THEN ReleaseLock
                                 ELSE UNCHANGED lockReleases

\* a decoder on a body that was opened with status 200
InitDecoder ==
  /\ pc = "idle"
  /\ promptContent = <<>>
  /\ InitGenerate
  /\ response = OkResponse
  /\ instances = {}
  /\ other = IdleStream
  /\ dpc = "read"
  /\ wire \in BodySet
  /\ reads = <<>>
  /\ lines = <<>>
  /\ frames = <<>>
  /\ IdlePure

\* reader.read() returns the next k bytes of the body
ReadValue(k) ==
  /\ dpc = "read"
  /\ k \in 1..Len(wire)
  /\ Len(reads) + 1 < MaxReads \/ k = Len(wire)
  /\ wire' = SubSeq(wire, k + 1, Len(wire))
  /\ reads' = Append(reads, SubSeq(wire, 1, k))
  /\ RunDecoder(LinesOf(SubSeq(wire, 1, k)))
  /\ UNCHANGED <<genVars, at, response, error, streamLogger, instances,
                 other>>
  /\ UNCHANGED pureVars

\* reader.read() reports done: break, then the finally block
ReadDone ==
  /\ dpc = "read"
  /\ wire = <<>>
  /\ dpc' = "returned"
  /\ ReleaseLock
  /\ UNCHANGED <<genVars, at, response, error, streamLogger, instances,
                 other, wire, reads, lines, frames>>
  /\ UNCHANGED pureVars

\* reader.read() rejects: the finally block, then the error propagates
ReadError ==
  /\ dpc = "read"
  /\ dpc' = "failed"
  /\ ReleaseLock
  /\ error' = [kind |-> "read", status |-> 0, body |-> <<>>]
  /\ UNCHANGED <<genVars, at, response, streamLogger, instances,
                 other, wire, reads, lines, frames>>
  /\ UNCHANGED pureVars

\* the consumer asks for the next frame
NextFrame ==
  /\ dpc = "yield"
  /\ RunDecoder(lines)
  /\ UNCHANGED <<genVars, at, response, error, streamLogger, instances,
                 other, wire, reads>>
  /\ UNCHANGED pureVars

\* the consumer leaves its loop: return() runs the finally block
CloseDecoder ==
  /\ dpc = "yield"
  /\ dpc' = "closed"
  /\ ReleaseLock
  /\ UNCHANGED <<genVars, at, response, error, streamLogger, instances,
                 other, wire, reads, lines, frames>>
  /\ UNCHANGED pureVars

NextDecoder ==
  \/ \E k \in 1..(MaxLines * Len(DataLine(DoneSentinel))) : ReadValue(k)
  \/ ReadDone
  \/ ReadError
  \/ NextFrame
  \/ CloseDecoder

SpecDecoder == InitDecoder /\ [][NextDecoder]_vars

\* the whole body of the response
Body == Flatten(reads) \o wire

\* the payloads of the `data:` lines among ls
Payloads(ls) ==
  LET data == SelectSeq(ls, StartsWithData)
  IN  [i \in 1..Len(data) |-> Slice6(data[i])]

IsJSON(text) == JSONParse(text) # SyntaxError

\* the payloads before the first sentinel
BeforeDone(ps) ==
  IF \E i \in 1..Len(ps) : ps[i] = DoneSentinel
    THEN SubSeq(ps, 1,
                (CHOOSE i \in 1..Len(ps) :
                   ps[i] = DoneSentinel
                     /\ \A j \in 1..(i - 1) : ps[j] # DoneSentinel) - 1)
    ELSE ps

\* the frames of a sequence of payloads
Parsed(ps) == [i \in 1..Len(ps) |-> JSONParse(ps[i])]

\* every line of the body is `data: <json>`, but the last, `data: [DONE]`
WellFormedBody ==
  LET ps == Payloads(Split(Body))
  IN  /\ Len(ps) >= 2
      /\ ps[Len(ps)] = DoneSentinel
      /\ \A i \in 1..(Len(ps) - 1) : IsJSON(ps[i])

\* C14: for a body of well-formed `data: <json>` lines followed by
\* `data: [DONE]`, however its bytes are divided into reads, the decoder
\* yields exactly the JSON frames of those lines, each once and in order.
DecoderYieldsEveryFrame ==
  (dpc = "returned" /\ WellFormedBody) =>
    frames = Parsed(BeforeDone(Payloads(Split(Body))))

\* the lines the decoder has seen, read by read
SeenLines == Flatten([i \in 1..Len(reads) |-> Split(Decode(reads[i]))])

\* C15: a `data:` line whose payload is not JSON is skipped and every
\* later well-formed frame of the same read and of later reads is still
\* yielded in order; once a `data: [DONE]` line was read no further frame
\* is yielded, whatever lines or reads follow.
MalformedSkippedDoneFinal ==
  LET expected ==
        Parsed(SelectSeq(BeforeDone(Payloads(SeenLines)), IsJSON))
  IN  /\ dpc \in {"read", "returned", "failed"} => frames = expected
      /\ dpc \in {"yield", "closed"} =>
           /\ Len(frames) <= Len(expected)
           /\ frames = SubSeq(expected, 1, Len(frames))
      /\ (dpc = "returned" /\ wire # <<>>) =>
           DoneSentinel \in {Payloads(SeenLines)[i] :
                               i \in 1..Len(Payloads(SeenLines))}

\* a payload that is not JSON in the first read, a frame in the second
\* read that was yielded, then the sentinel followed by one more frame
\* that was not
MalformedThenDoneWitness ==
  /\ dpc = "returned"
  /\ Len(reads) = 2
  /\ reads[1] = DataLine(<<"{">>)
  /\ reads[2] =
       DataLine(<<"1">>) \o DataLine(DoneSentinel) \o DataLine(<<"1">>)
  /\ frames = <<NumberOne>>

(***************************************************************************)
(* The request, and the batch path: makeRequest followed by                *)
(* convertToGenerateContentResponse                                        *)
(***************************************************************************)
\* a tool call of a batch message
BatchCall(type, n, a) == [type |-> type, name |-> n, arguments |-> a]

\* choices is "missing", "empty" or "ok" (one choice with a message)
Completion(choices, content, finish, calls, usage) ==
  [choices |-> choices, content |-> content, finish_reason |-> finish,
   tool_calls |-> calls, usage |-> usage]

BatchCallsSet ==
  {<<>>,
   <<BatchCall("function", <<"f">>, <<>>)>>,
   <<BatchCall("function", <<"g">>, <<"{">>)>>,
   <<BatchCall("custom", <<"f">>, <<"{", "}">>)>>}

CompletionSet ==
  {Completion(ch, c, r, calls, u) :
     ch \in {"missing", "empty", "ok"}, c \in ContentSet,
     r \in ProviderReasons \cup {""}, calls \in BatchCallsSet,
     u \in {NoUsage, Usage(1, 1, 2), Usage(2, 2, 5)}}

\* 'Error: Invalid response from OpenAI API'
ErrorMarker == <<"E", "r", "r", "o", "r">>

\* the response for a missing or empty choice array, without its marker
InvalidResponseEmptyText ==
  Response("batch", <<TextPart(<<>>)>>, "STOP", NoUsageMetadata, 0, <<>>)

\* the response for a missing or empty choice array
InvalidResponse ==
  Response("batch", <<TextPart(ErrorMarker)>>, "STOP", NoUsageMetadata,
           0, <<>>)

\* the part pushed for one tool call of type 'function'
BatchCallPart(toolCall) ==
  LET text == IF toolCall.arguments = <<>> THEN <<"{", "}">>
                                           ELSE toolCall.arguments
      args == JSONParse(text)
  IN  FunctionCallPart(toolCall.name,
                       IF args = SyntaxError THEN EmptyObject ELSE args)

RECURSIVE BatchCallParts(_)
\* the loop over message.tool_calls
BatchCallParts(calls) ==
  IF calls = <<>> THEN <<>>
  ELSE (IF Head(calls).type = "function"
          THEN <<BatchCallPart(Head(calls))>> ELSE <<>>)
         \o BatchCallParts(Tail(calls))

\* usageMetadata of a batch response
BatchUsage(usage) ==
  IF usage.present
    THEN [set |-> TRUE,
          promptTokenCount |-> usage.prompt_tokens,
          candidatesTokenCount |-> usage.completion_tokens,
          totalTokenCount |-> usage.total_tokens]
    ELSE NoUsageMetadata

convertToGenerateContentResponse(completion) ==
  IF completion.choices # "ok" THEN InvalidResponse
  ELSE LET found ==
             (IF completion.content # <<>>
                THEN <<TextPart(completion.content)>> ELSE <<>>)
               \o BatchCallParts(completion.tool_calls)
           parts == IF found = <<>> THEN <<TextPart(<<>>)>> ELSE found
       IN  Response("batch", parts,
                    OrElse(completion.finish_reason, "STOP"),
                    BatchUsage(completion.usage), 0, <<>>)

ErrorStatusSet == {401, 500}

ErrorTextSet == {<<>>, <<"e">>}

\* the Error thrown for a response that is not ok: its message holds the
\* status and the text of the body
RequestError(kind, status, errorText) ==
  [kind |-> kind, status |-> status, body |-> errorText]

\* before fetch has answered
InitRequest ==
  /\ pc = "request"
  /\ promptContent \in PromptSet
  /\ InitGenerate
  /\ response = NoResponse
  /\ instances = {}
  /\ other = IdleStream
  /\ IdleDecoder
  /\ IdlePure

\* generateContent: makeRequest resolves and the completion is converted
BatchRequestOk(completion) ==
  /\ pc = "request"
  /\ pc' = "returned"
  /\ response' = OkResponse
  /\ consumed' = <<completion>>
  /\ events' = <<convertToGenerateContentResponse(completion)>>
  /\ UNCHANGED <<promptContent, hasYielded, accumulatedToolCalls,
                 accumulatedUsage, accumulatedCompletionContent, at, error,
                 lockReleases, streamLogger, instances, other, decVars>>
  /\ UNCHANGED pureVars

\* generateContent: makeRequest rejects on a response that is not ok
BatchRequestFails(status, errorText) ==
  /\ pc = "request"
  /\ pc' = "rejected"
  /\ response' = [status |-> status, body |-> errorText]
  /\ error' = RequestError("request", status, errorText)
  /\ UNCHANGED <<consumed, promptContent, hasYielded, accumulatedToolCalls,
                 accumulatedUsage, accumulatedCompletionContent, events, at,
                 lockReleases, streamLogger, instances, other, decVars>>
  /\ UNCHANGED pureVars

NextBatch ==
  \/ \E completion \in CompletionSet : BatchRequestOk(completion)
  \/ \E status \in ErrorStatusSet, errorText \in ErrorTextSet :
       BatchRequestFails(status, errorText)

SpecBatch == InitRequest /\ [][NextBatch]_vars

LifeFrames ==
  {Frame("nochoices", <<>>, "", <<>>, NoUsage)}
    \cup {Frame("ok", c, r, <<>>, NoUsage) :
            c \in {<<>>, <<"a">>}, r \in {"", "stop"}}
    \cup {Frame("ok", c, r, <<Fragment(i, <<"f">>, <<>>)>>, NoUsage) :
            c \in {<<>>, <<"a">>}, r \in {"", "stop"}, i \in {0, MaxIndex}}

\* makeStreamRequestExperimental resolves; the consumer starts generate
StreamRequestOk ==
  /\ pc = "request"
  /\ pc' = "open"
  /\ response' = OkResponse
  /\ instances' = instances \cup {StreamId}
  /\ UNCHANGED <<consumed, promptContent, hasYielded, accumulatedToolCalls,
                 accumulatedUsage, accumulatedCompletionContent, events, at,
                 error, lockReleases, streamLogger, other, decVars>>
  /\ UNCHANGED pureVars

\* makeStreamRequestExperimental rejects on a response that is not ok;
\* generateContentStream rejects with it before generate exists
StreamRequestFails(status, errorText) ==
  /\ pc = "request"
  /\ pc' = "rejected"
  /\ response' = [status |-> status, body |-> errorText]
  /\ error' = RequestError("stream request", status, errorText)
  /\ UNCHANGED <<consumed, promptContent, hasYielded, accumulatedToolCalls,
                 accumulatedUsage, accumulatedCompletionContent, events, at,
                 lockReleases, streamLogger, instances, other, decVars>>
  /\ UNCHANGED pureVars

\* the loop body after its content branch: the fragments are accumulated
\* and, under a finish marker, the tool-call event is built and yielded
FinishChunk(chunk, chunkCount, usage, completion) ==
  LET toolCalls == AddFragments(accumulatedToolCalls, chunk.tool_calls)
      finalize  == IsFinished(chunk) /\ Len(toolCalls) > 0
      throws    == finalize /\ HasHole(toolCalls)
  IN  /\ accumulatedToolCalls' = toolCalls
      /\ events' =
           IF finalize /\ ~throws
             THEN Append(events,
                         ToolCallEvent(chunk, chunkCount, toolCalls, usage,
                                       promptContent, completion))
             ELSE events
      /\ pc' = IF throws THEN "thrown"
               ELSE IF finalize THEN "yield" ELSE "open"
      /\ at' = IF finalize /\ ~throws THEN "tool" ELSE "none"
      /\ IF throws
           THEN ReleaseLock /\ FinishLogger
           ELSE UNCHANGED <<lockReleases, streamLogger, instances>>

\* the next frame arrives and the loop body runs up to its first yield
PullChunk(chunk) ==
  /\ pc = "open"
  /\ Len(consumed) < MaxFrames
  /\ ~IsSkipped(chunk)
  /\ LET chunkCount == Len(consumed) + 1
         usage      == UpdateUsage(accumulatedUsage, chunk)
         completion == accumulatedCompletionContent \o chunk.content
         first      == ContentEvents(chunk, chunkCount, accumulatedToolCalls,
                                     usage, promptContent, completion)
     IN  /\ consumed' = Append(consumed, chunk)
         /\ accumulatedUsage' = usage
         /\ hasYielded' = (hasYielded \/ chunk.content # <<>>)
         /\ accumulatedCompletionContent' = completion
         /\ IF first # <<>>
              THEN /\ events' = events \o first
                   /\ pc' = "yield"
                   /\ at' = "content"
                   /\ UNCHANGED <<accumulatedToolCalls, lockReleases,
                                  streamLogger, instances>>
              ELSE FinishChunk(chunk, chunkCount, usage, completion)
  /\ UNCHANGED <<promptContent, response, error, other, decVars>>
  /\ UNCHANGED pureVars

\* the consumer asks for the next event after a text or empty event
ResumeChunk ==
  /\ pc = "yield"
  /\ at = "content"
  /\ FinishChunk(consumed[Len(consumed)], Len(consumed), accumulatedUsage,
                 accumulatedCompletionContent)
  /\ UNCHANGED <<consumed, promptContent, hasYielded, accumulatedUsage,
                 accumulatedCompletionContent, response, error, other,
                 decVars>>
  /\ UNCHANGED pureVars

\* the consumer asks for the next event after a tool-call event
ResumeLoop ==
  /\ pc = "yield"
  /\ at = "tool"
  /\ pc' = "open"
  /\ at' = "none"
  /\ UNCHANGED <<consumed, promptContent, hasYielded, accumulatedToolCalls,
                 accumulatedUsage, accumulatedCompletionContent, events,
                 response, error, lockReleases, streamLogger, instances,
                 other, decVars>>
  /\ UNCHANGED pureVars

\* the decoder returns (done or [DONE]) and released its lock; the code
\* after the loop yields the fallback event or falls into the finally
EndOfStream ==
  /\ pc = "open"
  /\ ReleaseLock
  /\ IF ~hasYielded /\ Len(accumulatedToolCalls) = 0
       THEN /\ events' =
                 Append(events,
                        Response("fallback", <<TextPart(<<>>)>>, "STOP",
                                 UsageMetadata(accumulatedUsage,
                                               promptContent,
                                               accumulatedCompletionContent),
                                 0, <<>>))
            /\ pc' = "yield"
            /\ at' = "fallback"
            /\ UNCHANGED <<streamLogger, instances>>
       ELSE /\ pc' = "done"
            /\ FinishLogger
            /\ UNCHANGED <<events, at>>
  /\ UNCHANGED <<consumed, promptContent, hasYielded, accumulatedToolCalls,
                 accumulatedUsage, accumulatedCompletionContent, response,
                 error, other, decVars>>
  /\ UNCHANGED pureVars

\* the consumer asks for the next event after the fallback event
ResumeEnd ==
  /\ pc = "yield"
  /\ at = "fallback"
  /\ pc' = "done"
  /\ at' = "none"
  /\ FinishLogger
  /\ UNCHANGED <<consumed, promptContent, hasYielded, accumulatedToolCalls,
                 accumulatedUsage, accumulatedCompletionContent, events,
                 response, error, lockReleases, other, decVars>>
  /\ UNCHANGED pureVars

\* the consumer stops, and a terminal event is made up for it
ReturnWithTerminal ==
  /\ pc = "yield"
  /\ pc' = "cancelled"
  /\ events' = Append(events,
                      Response("fallback", <<TextPart(<<>>)>>, "STOP",
                               UsageMetadata(accumulatedUsage, promptContent,
                                             accumulatedCompletionContent),
                               0, <<>>))
  /\ FinishLogger
  /\ IF at = "fallback" THEN UNCHANGED lockReleases ELSE ReleaseLock
  /\ UNCHANGED <<consumed, promptContent, hasYielded, accumulatedToolCalls,
                 accumulatedUsage, accumulatedCompletionContent, at,
                 response, error, other, decVars>>
  /\ UNCHANGED pureVars

\* the consumer stops and nothing is cleaned up
ReturnWithoutFinally ==
  /\ pc = "yield"
  /\ pc' = "cancelled"
  /\ UNCHANGED <<consumed, promptContent, hasYielded, accumulatedToolCalls,
                 accumulatedUsage, accumulatedCompletionContent, events, at,
                 response, error, lockReleases, streamLogger, instances,
                 other, decVars>>
  /\ UNCHANGED pureVars

\* the consumer stops at an event: return() completes generate at its
\* yield, the loop closes the decoder (unless it has returned already)
\* and the finally block runs
Return ==
  /\ pc = "yield"
  /\ pc' = "cancelled"
  /\ FinishLogger
  /\ IF at = "fallback" THEN UNCHANGED lockReleases ELSE ReleaseLock
  /\ UNCHANGED <<consumed, promptContent, hasYielded, accumulatedToolCalls,
                 accumulatedUsage, accumulatedCompletionContent, events, at,
                 response, error, other, decVars>>
  /\ UNCHANGED pureVars

\* a synthetic terminal event is yielded before the error is rethrown
ReadFailsWithTerminal ==
  /\ pc = "open"
  /\ pc' = "failed"
  /\ error' = [kind |-> "read", status |-> 0, body |-> <<>>]
  /\ events' = Append(events,
                      Response("fallback", <<TextPart(<<>>)>>, "STOP",
                               UsageMetadata(accumulatedUsage, promptContent,
                                             accumulatedCompletionContent),
                               0, <<>>))
  /\ ReleaseLock
  /\ FinishLogger
  /\ UNCHANGED <<consumed, promptContent, hasYielded, accumulatedToolCalls,
                 accumulatedUsage, accumulatedCompletionContent, at,
                 response, other, decVars>>
  /\ UNCHANGED pureVars

\* reader.read() rejects: the decoder releases its lock and throws, the
\* error leaves the loop, the finally block runs
ReadFails ==
  /\ pc = "open"
  /\ pc' = "failed"
  /\ error' = [kind |-> "read", status |-> 0, body |-> <<>>]
  /\ ReleaseLock
  /\ FinishLogger
  /\ UNCHANGED <<consumed, promptContent, hasYielded, accumulatedToolCalls,
                 accumulatedUsage, accumulatedCompletionContent, events, at,
                 response, other, decVars>>
  /\ UNCHANGED pureVars

NextLife ==
  \/ StreamRequestOk
  \/ \E status \in ErrorStatusSet, errorText \in ErrorTextSet :
       StreamRequestFails(status, errorText)
  \/ \E completion \in CompletionSet : BatchRequestOk(completion)
  \/ \E status \in ErrorStatusSet, errorText \in ErrorTextSet :
       BatchRequestFails(status, errorText)
  \/ \E chunk \in LifeFrames : SkipChunk(chunk)
  \/ \E chunk \in LifeFrames : PullChunk(chunk)
  \/ ResumeChunk
  \/ ResumeLoop
  \/ EndOfStream
  \/ ResumeEnd
  \/ Return
  \/ ReadFails
  \/ NextDecoder

\* a request from fetch to the end of its stream, and a decoder from its
\* first read to its end
SpecLife == (InitRequest \/ InitDecoder) /\ [][NextLife]_vars

\* C16: a transport failure is an error, never an event: a response that
\* is not 2xx rejects the batch and the stream request with an error that
\* holds the status and the raw body text, before any event; a read that
\* fails in mid-stream is thrown to the consumer after the events already
\* emitted, and no terminal event is made up for it.
TransportFailureIsAnError ==
  /\ [](pc = "rejected" =>
          /\ events = <<>>
          /\ consumed = <<>>
          /\ response.status \in ErrorStatusSet
          /\ error.kind \in {"request", "stream request"}
          /\ error.status = response.status
          /\ error.body = response.body)
  /\ [](pc = "failed" => error.kind = "read")
  /\ [][(pc' = "failed" /\ pc # "failed") => events' = events]_vars
  /\ [][(dpc' = "failed" /\ dpc # "failed") =>
          (frames' = frames /\ error'.kind = "read")]_vars

\* a stream that failed after two events, the last one not terminal
MidStreamFailureWitness ==
  /\ pc = "failed"
  /\ response = OkResponse
  /\ Len(events) = 2
  /\ events[2].finishReason = Undefined
  /\ error.kind = "read"

\* C17: when the consumer stops consuming a stream after some events, no
\* further frame is pulled or read and no further event is emitted, in
\* particular no made-up terminal event: the events of a cancelled stream
\* are those it had when the consumer stopped.
CancelledStreamStaysSilent ==
  [][/\ pc = "cancelled" => pc' = "cancelled"
     /\ pc' = "cancelled" => (events' = events /\ consumed' = consumed)
     /\ dpc = "closed" => dpc' = "closed"
     /\ dpc' = "closed" =>
          (frames' = frames /\ reads' = reads /\ wire' = wire)]_vars

\* a stream cancelled after two events of which none is terminal, with
\* frames still to come
CancelledWitness ==
  /\ pc = "cancelled"
  /\ Len(events) = 2
  /\ \A e \in 1..Len(events) : events[e].finishReason = Undefined
  /\ Len(consumed) < MaxFrames

\* C18: however a started stream ends (the transport reports done, the
\* sentinel is read, a read fails, the consumer stops early), the reader's
\* lock is released exactly once and the StreamLogger entry is finished
\* and removed from the registry exactly once; neither happens while
\* frames are still being delivered.
ReleasedAndRemovedOnce ==
  /\ pc \in {"done", "failed", "cancelled", "thrown"} =>
       /\ lockReleases = 1
       /\ streamLogger = [finished |-> 1, removed |-> 1]
       /\ StreamId \notin instances
  /\ (pc = "open" \/ (pc = "yield" /\ at # "fallback")) =>
       /\ lockReleases = 0
       /\ streamLogger = [finished |-> 0, removed |-> 0]
       /\ StreamId \in instances
  /\ (pc = "yield" /\ at = "fallback") =>
       /\ lockReleases = 1
       /\ streamLogger = [finished |-> 0, removed |-> 0]
       /\ StreamId \in instances
  /\ dpc \in {"returned", "failed", "closed"} => lockReleases = 1
  /\ dpc \in {"read", "yield"} => lockReleases = 0

\* a stream that the consumer left at a tool-call event
StoppedEarlyWitness ==
  /\ pc = "cancelled"
  /\ at = "tool"
  /\ Len(consumed) < MaxFrames
  /\ lockReleases = 1
  /\ streamLogger = [finished |-> 1, removed |-> 1]
  /\ instances = {}

(***************************************************************************)
(* Two streams of one process                                              *)
(***************************************************************************)
\* the locals of a call of generate whose body has started
NewStream(id, prompt) ==
  [pc |-> "open", streamId |-> id, consumed |-> <<>>,
   promptContent |-> prompt, hasYielded |-> FALSE,
   accumulatedToolCalls |-> <<>>, accumulatedUsage |-> ZeroUsage,
   accumulatedCompletionContent |-> <<>>, events |-> <<>>]

\* one pass of the loop of generate on the locals st, the consumer taking
\* every event of the frame
StepChunk(st, chunk) ==
  IF IsSkipped(chunk) THEN [st EXCEPT !.consumed = Append(@, chunk)]
  ELSE
    LET chunkCount == Len(st.consumed) + 1
        usage      == UpdateUsage(st.accumulatedUsage, chunk)
        completion == st.accumulatedCompletionContent \o chunk.content
        first      == ContentEvents(chunk, chunkCount,
                                    st.accumulatedToolCalls, usage,
                                    st.promptContent, completion)
        toolCalls  == AddFragments(st.accumulatedToolCalls, chunk.tool_calls)
        finalize   == IsFinished(chunk) /\ Len(toolCalls) > 0
        throws     == finalize /\ HasHole(toolCalls)
    IN  [st EXCEPT
           !.consumed = Append(@, chunk),
           !.accumulatedUsage = usage,
           !.hasYielded = (@ \/ chunk.content # <<>>),
           !.accumulatedCompletionContent = completion,
           !.accumulatedToolCalls = toolCalls,
           !.events =
              @ \o first \o
                (IF finalize /\ ~throws
                   THEN <<ToolCallEvent(chunk, chunkCount, toolCalls, usage,
                                        st.promptContent, completion)>>
                   ELSE <<>>),
           !.pc = IF throws THEN "thrown" ELSE "open"]

\* the code after the loop on the locals st
StepEnd(st) ==
  [st EXCEPT
     !.events =
        IF ~st.hasYielded /\ Len(st.accumulatedToolCalls) = 0
          THEN Append(@, Response("fallback", <<TextPart(<<>>)>>, "STOP",
                                  UsageMetadata(st.accumulatedUsage,
                                                st.promptContent,
                                                st.accumulatedCompletionContent),
                                  0, <<>>))
          ELSE @,
     !.pc = "done"]

\* the second stream with the four accumulators of the first one, as if
\* they were fields of the generator object
OtherLocalsShared ==
  [other EXCEPT
     !.hasYielded = hasYielded,
     !.accumulatedToolCalls = accumulatedToolCalls,
     !.accumulatedUsage = accumulatedUsage,
     !.accumulatedCompletionContent = accumulatedCompletionContent]

\* the locals the second call of generate works on: its own
OtherLocals == other

\* frames of text, of usage with a finish marker, and of tool calls
TwoFrames ==
  {Frame("ok", <<"a">>, "", <<>>, NoUsage),
   Frame("ok", <<>>, "stop", <<>>, Usage(1, 1, 2)),
   Frame("ok", <<>>, "", <<Fragment(0, <<"f">>, <<>>)>>, NoUsage),
   Frame("ok", <<>>, "tool_calls",
         <<Fragment(MaxIndex, <<"g">>, <<>>)>>, NoUsage)}

\* the stream ids come from the clock and Math.random(): two streams may
\* draw the same one
StreamIdSet == {StreamId, "stream_2"}

\* two started streams
InitTwo ==
  /\ pc = "open"
  /\ promptContent \in PromptSet
  /\ InitGenerate
  /\ response = OkResponse
  /\ \E id \in StreamIdSet :
       /\ other = NewStream(id, <<"q">>)
       /\ instances = {StreamId, id}
  /\ IdleDecoder
  /\ IdlePure

\* a frame of the second stream arrives
OtherChunk(chunk) ==
  /\ other.pc = "open"
  /\ Len(other.consumed) < MaxFrames
  /\ other' = StepChunk(OtherLocals, chunk)
  /\ instances' = IF other'.pc = "thrown"
                    THEN instances \ {other.streamId} ELSE instances
  /\ UNCHANGED <<genVars, at, response, error, lockReleases, streamLogger,
                 decVars>>
  /\ UNCHANGED pureVars

\* the transport of the second stream ends
OtherEnd ==
  /\ other.pc = "open"
  /\ other' = StepEnd(OtherLocals)
  /\ instances' = instances \ {other.streamId}
  /\ UNCHANGED <<genVars, at, response, error, lockReleases, streamLogger,
                 decVars>>
  /\ UNCHANGED pureVars

NextTwo ==
  \/ \E chunk \in TwoFrames : ProcessChunk(chunk)
  \/ StreamEnd
  \/ \E chunk \in TwoFrames : OtherChunk(chunk)
  \/ OtherEnd

SpecTwo == InitTwo /\ [][NextTwo]_vars

RECURSIVE RunFrames(_, _)
\* the locals after the frames fs, starting from st
RunFrames(st, fs) ==
  IF fs = <<>> THEN st ELSE RunFrames(StepChunk(st, Head(fs)), Tail(fs))

\* the events of a stream that runs alone on the frames fs
RunAlone(prompt, fs, ended) ==
  LET st == RunFrames(NewStream(StreamId, prompt), fs)
  IN  IF ended THEN StepEnd(st).events ELSE st.events

\* C19: with the frames of two streams arriving interleaved in any order,
\* the events of each stream are those it yields when it runs alone on
\* its own frames.
StreamsAreIndependent ==
  /\ events = RunAlone(promptContent, consumed, pc = "done")
  /\ other.events =
       RunAlone(other.promptContent, other.consumed, other.pc = "done")

\* both streams under way, with different frames behind them and
\* different accumulators
TwoStreamsWitness ==
  /\ pc = "open"
  /\ other.pc = "open"
  /\ Len(consumed) = 2
  /\ Len(other.consumed) = 2
  /\ hasYielded /\ ~other.hasYielded
  /\ Len(accumulatedToolCalls) = 0
  /\ Len(other.accumulatedToolCalls) > 0
  /\ accumulatedUsage # other.accumulatedUsage
  /\ events # <<>>

(***************************************************************************)
(* Batch conversion claims                                                 *)
(***************************************************************************)
\* the args a tool call is expected to carry: its parsed argument text,
\* an empty object when the text does not parse
ParsedOrEmpty(arguments) ==
  LET args == JSONParse(arguments)
  IN  IF args = SyntaxError THEN EmptyObject ELSE args

\* one functionCall part for every tool call of the message, in order
ExpectedCallParts(calls) ==
  [i \in 1..Len(calls) |->
     FunctionCallPart(calls[i].name, ParsedOrEmpty(calls[i].arguments))]

\* C21: for a batch completion with a non-empty choice array the parts of
\* the response are one text part if and only if the message has
\* non-empty text, followed by one functionCall part for each tool call of
\* the message in provider order (args parsed, or an empty object), and a
\* single empty text part when that list would be empty; nothing is thrown.
BatchPartsExact ==
  (pc \in {"returned", "thrown"} /\ consumed[1].choices = "ok") =>
    LET completion == consumed[1]
        expected ==
          (IF completion.content # <<>>
             THEN <<TextPart(completion.content)>> ELSE <<>>)
            \o ExpectedCallParts(completion.tool_calls)
    IN  /\ pc = "returned"
        /\ events[1].parts =
             IF expected = <<>> THEN <<TextPart(<<>>)>> ELSE expected

\* C22: the finishReason of every response returned by the batch path is
\* a member of {STOP, MAX_TOKENS, SAFETY, OTHER}: the canonical mapping of
\* the provider's finish_reason, and STOP when the provider gave none.
BatchFinishReasonIsCanonical ==
  (pc = "returned" /\ consumed[1].choices = "ok") =>
    /\ events[1].finishReason \in {"STOP", "MAX_TOKENS", "SAFETY", "OTHER"}
    /\ events[1].finishReason =
         IF consumed[1].finish_reason = ""
           THEN "STOP" ELSE CanonicalReason(consumed[1].finish_reason)

\* C23: a batch response for which the provider reported no usage still
\* carries a usage object, estimated from the request and the completion
\* text, whose total is the sum of its prompt and completion counts.
BatchAlwaysCarriesUsage ==
  (pc = "returned" /\ consumed[1].choices = "ok"
     /\ ~consumed[1].usage.present) =>
    LET meta == events[1].usageMetadata
    IN  /\ meta.set
        /\ meta.promptTokenCount = Len(promptContent)
        /\ meta.candidatesTokenCount = Len(consumed[1].content)
        /\ meta.totalTokenCount =
             meta.promptTokenCount + meta.candidatesTokenCount

(***************************************************************************)
(* The request body: generateContent and generateContentStream build it    *)
(* from request.contents and request.config.tools                          *)
(***************************************************************************)
\* number of tools in the tool list of a request
MaxTools == 2
\* number of function declarations in one tool
MaxDeclarations == 2

\* 'unknown'
Unknown == <<"u", "n", "k">>

\* a function declaration; parameters is "absent", "untyped" (an object
\* without type and properties) or "typed"
FunctionDeclaration(name, parameters) ==
  [name |-> name, parameters |-> parameters]

\* a tool of the list; functionDeclarations is "missing" (no such key, as
\* in {googleSearch: {}}), "null" or "array"
Tool(functionDeclarations, declarations) ==
  [functionDeclarations |-> functionDeclarations,
   declarations |-> declarations]

DeclarationSet ==
  {FunctionDeclaration(<<"f">>, "typed"),
   FunctionDeclaration(<<>>, "absent"),
   FunctionDeclaration(<<"g">>, "untyped")}

\* the sequences over S of length at most n
SeqUpTo(S, n) == UNION {[1..k -> S] : k \in 0..n}

ToolSet ==
  {Tool("missing", <<>>), Tool("null", <<>>)}
    \cup {Tool("array", ds) : ds \in SeqUpTo(DeclarationSet, MaxDeclarations)}

\* request.config.tools: kind is "absent" when the config has no tools,
\* "notarray" for a value that is not an array, "array" for a tool list
Tools(kind, list) == [kind |-> kind, list |-> list]

ToolsSet ==
  {Tools("absent", <<>>), Tools("notarray", <<>>)}
    \cup {Tools("array", l) : l \in SeqUpTo(ToolSet, MaxTools)}

\* the entry of the provider's tool array for one declaration
OpenAITool(funcDecl) ==
  [type |-> "function",
   name |-> IF funcDecl.name = <<>> THEN Unknown ELSE funcDecl.name,
   parameters |->
     IF funcDecl.parameters = "absent" THEN "object"
     ELSE IF funcDecl.parameters = "untyped" THEN "object"
     ELSE "typed"]

RECURSIVE ConvertToolList(_)
\* the loop over the tools and over the declarations of each tool
ConvertToolList(list) ==
  IF list = <<>> THEN <<>>
  ELSE LET tool == Head(list)
       IN  (IF tool.functionDeclarations = "array"
              THEN [i \in 1..Len(tool.declarations) |->
                      OpenAITool(tool.declarations[i])]
              ELSE <<>>)
             \o ConvertToolList(Tail(list))

convertToolsToOpenAI(tools) ==
  IF tools.kind # "array" THEN <<>> ELSE ConvertToolList(tools.list)

\* the body of a chat completion request; tools and tool_choice are members
\* of the body only when their `set` is TRUE
CompletionRequest(messages, stream) ==
  [messages |-> messages, stream |-> stream,
   tools |-> [set |-> FALSE, list |-> <<>>],
   tool_choice |-> [set |-> FALSE, value |-> ""]]

\* the converted tools are attached whether or not there are any
AttachToolsAlways(completionRequest, openaiTools) ==
  [completionRequest EXCEPT
     !.tools = [set |-> TRUE, list |-> openaiTools],
     !.tool_choice = [set |-> TRUE, value |-> "auto"]]

\* if (openaiTools.length > 0) { tools = openaiTools; tool_choice = 'auto' }
AttachTools(completionRequest, openaiTools) ==
  IF Len(openaiTools) > 0
    THEN [completionRequest EXCEPT
            !.tools = [set |-> TRUE, list |-> openaiTools],
            !.tool_choice = [set |-> TRUE, value |-> "auto"]]
    ELSE completionRequest

\* the request body either builder sends
BuildBody(messages, tools, stream) ==
  LET completionRequest == CompletionRequest(messages, stream)
  IN  IF tools.kind # "absent"
        THEN AttachTools(completionRequest, convertToolsToOpenAI(tools))
        ELSE completionRequest

(***************************************************************************)
(* convertToOpenAIMessagesWithTools: the conversation history becomes the  *)
(* provider's message array                                                *)
(***************************************************************************)
\* number of entries of a history array
MaxEntries == 2
\* number of parts of one history entry
MaxParts == 2

\* a field of a response object: absent (or undefined), or present with
\* the String() form of its value
Field(present, text) == [present |-> present, text |-> text]

NoField == Field(FALSE, <<>>)

\* the response of a functionResponse part; kind is "undefined", "string",
\* "number" or "object"; text is the String() form of a string or number;
\* extra tells whether an object has a member besides the recognized ones
ResponseValue(kind, text, output, stdout, result, extra) ==
  [kind |-> kind, text |-> text, output |-> output, stdout |-> stdout,
   result |-> result, extra |-> extra]

ResponseObject(output, stdout, result, extra) ==
  ResponseValue("object", <<>>, output, stdout, result, extra)

ResponsePrimitive(kind, text) ==
  ResponseValue(kind, text, NoField, NoField, NoField, FALSE)

\* {}
EmptyResponse == ResponseObject(NoField, NoField, NoField, FALSE)

\* a part of a history entry; kind is "string" (a bare string), "text",
\* "functionCall", "functionResponse" or "other" (none of these members)
HistoryPart(kind, text, name, value) ==
  [kind |-> kind, text |-> text, name |-> name, response |-> value]

\* a history entry; kind is "string", "norole" (an object without role) or
\* "content" (an object with role and parts)
Entry(kind, role, text, parts) ==
  [kind |-> kind, role |-> role, text |-> text, parts |-> parts]

\* request.contents; kind is "string", "object" (one entry, not in an
\* array) or "array"
Contents(kind, items) == [kind |-> kind, items |-> items]

\* a message of the request; tool_call_id is 0 when the message has none;
\* `entry` and `part` are the positions in the history of what the message
\* was built from, part 0 being the entry itself (bookkeeping of the model,
\* not fields of the message)
Message(role, content, tool_calls, tool_call_id, entry, part) ==
  [role |-> role, content |-> content, tool_calls |-> tool_calls,
   tool_call_id |-> tool_call_id, entry |-> entry, part |-> part]

\* the n-th id `call_${Date.now()}_${Math.random()...}` drawn in one
\* conversion: every draw is a new value
CallId(n) == n

\* response || {}
Truthy(value) ==
  CASE value.kind = "undefined" -> FALSE
    [] value.kind = "string" -> value.text # <<>>
    [] value.kind = "number" -> value.text # <<"0">>
    [] OTHER -> TRUE

\* JSON.stringify(responseContent, null, 2)
PrettyJSON(responseContent) ==
  IF responseContent.extra THEN <<"{", "x", "}">> ELSE <<"{", "}">>

\* what extractFromPartUnion returns for a part
extractFromPartUnion(part) ==
  [text |-> IF part.kind \in {"string", "text"} THEN part.text ELSE <<>>,
   functionCall |-> part.kind = "functionCall",
   functionResponse |-> part.kind = "functionResponse",
   name |-> IF part.name = <<>> THEN Unknown ELSE part.name,
   response |-> IF Truthy(part.response) THEN part.response
                                         ELSE EmptyResponse]

\* contentString of the tool message for a response
ContentString(responseContent) ==
  IF responseContent.kind = "string" THEN responseContent.text
  ELSE IF responseContent.kind = "object"
    THEN IF responseContent.output.present
           THEN responseContent.output.text
         ELSE IF responseContent.stdout.present
           THEN responseContent.stdout.text
         ELSE IF responseContent.result.present
           THEN responseContent.result.text
         ELSE PrettyJSON(responseContent)
  ELSE responseContent.text

\* an entry of tool_calls
ToolCall(id, name) ==
  [id |-> id, type |-> "function", name |-> name,
   arguments |-> <<"{", "}">>]

\* the role of the entry is copied as it is
MapRoleIdentity(role) == role

\* contentItem.role === 'model' ? 'assistant' : contentItem.role
MapRole(role) == IF role = "model" THEN "assistant" ELSE role

RECURSIVE ScanParts(_, _, _, _)
\* the loop over the parts of entry i, from part j on; acc holds
\* textContent, toolCalls, the tool messages pushed so far and the number
\* of ids drawn so far
ScanParts(parts, i, j, acc) ==
  IF j > Len(parts) THEN acc
  ELSE
    LET extracted == extractFromPartUnion(parts[j])
        withText ==
          IF extracted.text # <<>>
            THEN [acc EXCEPT !.textContent =
                    acc.textContent
                      \o (IF acc.textContent # <<>> THEN <<"\n">> ELSE <<>>)
                      \o extracted.text]
            ELSE acc
        withCall ==
          IF extracted.functionCall
            THEN [withText EXCEPT
                    !.toolCalls =
                      Append(withText.toolCalls,
                             ToolCall(CallId(withText.ids + 1),
                                      extracted.name)),
                    !.ids = withText.ids + 1]
            ELSE withText
        withResponse ==
          IF extracted.functionResponse
            THEN [withCall EXCEPT
                    !.pushed =
                      Append(withCall.pushed,
                             Message("tool",
                                     ContentString(extracted.response),
                                     <<>>, CallId(withCall.ids + 1), i, j)),
                    !.ids = withCall.ids + 1]
            ELSE withCall
    IN  ScanParts(parts, i, j + 1, withResponse)

\* the messages pushed for entry i of the history, and the ids drawn
ConvertItem(item, i, ids) ==
  IF item.kind = "string"
    THEN [pushed |-> <<Message("user", item.text, <<>>, 0, i, 0)>>,
          ids |-> ids]
  ELSE IF item.kind = "content"
    THEN LET acc == ScanParts(item.parts, i, 1,
                              [textContent |-> <<>>, toolCalls |-> <<>>,
                               pushed |-> <<>>, ids |-> ids])
         IN  [pushed |->
                Append(acc.pushed,
                       Message(MapRole(item.role), acc.textContent,
                               acc.toolCalls, 0, i, 0)),
              ids |-> acc.ids]
  ELSE [pushed |-> <<>>, ids |-> ids]

RECURSIVE ConvertItems(_, _, _)
\* the loop over the history, from entry i on
ConvertItems(items, i, ids) ==
  IF i > Len(items) THEN <<>>
  ELSE LET converted == ConvertItem(items[i], i, ids)
       IN  converted.pushed \o ConvertItems(items, i + 1, converted.ids)

convertToOpenAIMessagesWithTools(contents) ==
  ConvertItems(contents.items, 1, 0)

\* the parts of the histories: a text, a call of f, a response to f
HistoryPartSet ==
  {HistoryPart("text", <<"a">>, <<>>, ResponsePrimitive("undefined", <<>>)),
   HistoryPart("functionCall", <<>>, <<"f">>,
               ResponsePrimitive("undefined", <<>>)),
   HistoryPart("functionResponse", <<>>, <<"f">>,
               ResponsePrimitive("string", <<"r">>))}

RoleSet == {"user", "model"}

ContentEntrySet ==
  {Entry("content", role, <<>>, parts) :
     role \in RoleSet, parts \in SeqUpTo(HistoryPartSet, MaxParts)}

EntrySet ==
  {Entry("string", "", <<"q">>, <<>>), Entry("norole", "", <<>>, <<>>)}
    \cup ContentEntrySet



\* the responses a tool may have returned
ResponseSet ==
  {ResponsePrimitive("undefined", <<>>),
   ResponsePrimitive("string", <<"r">>), ResponsePrimitive("string", <<>>),
   ResponsePrimitive("number", <<"7">>),
   ResponsePrimitive("number", <<"0">>)}
    \cup {ResponseObject(o, s, r, x) :
            o \in {NoField, Field(TRUE, <<"o">>)},
            s \in {NoField, Field(TRUE, <<"s">>)},
            r \in {NoField, Field(TRUE, <<"t">>)}, x \in BOOLEAN}

\* an entry that holds one response of a tool
ResponseEntrySet ==
  {Entry("content", "user", <<>>,
         <<HistoryPart("functionResponse", <<>>, n, r)>>) :
     n \in {<<>>, <<"f">>}, r \in ResponseSet}

ContentsSet ==
  {Contents("string", <<Entry("string", "", <<"q">>, <<>>)>>)}
    \cup {Contents("object", <<e>>) :
            e \in ContentEntrySet \cup {Entry("norole", "", <<>>, <<>>)}}
    \cup {Contents("array", es) : es \in SeqUpTo(EntrySet, MaxEntries)}
    \cup {Contents("array", <<e>>) : e \in ResponseEntrySet}

\* a request whose body is not built yet
NewRequest(contents, tools) ==
  [built |-> "none", contents |-> contents, tools |-> tools,
   messages |-> <<>>, body |-> <<>>]

\* no generation takes part in the run
IdleGenerate ==
  /\ pc = "idle"
  /\ promptContent = <<>>
  /\ InitGenerate
  /\ response = NoResponse
  /\ instances = {}
  /\ other = IdleStream
  /\ IdleDecoder

\* generateContent is called with a history and no tools
InitMessages ==
  /\ IdleGenerate
  /\ openAIModelsConfig = NullConfig
  /\ resolution = NoResolution
  /\ \E contents \in ContentsSet :
       request = NewRequest(contents, Tools("absent", <<>>))

\* generateContent is called with a tool list
InitTools ==
  /\ IdleGenerate
  /\ openAIModelsConfig = NullConfig
  /\ resolution = NoResolution
  /\ \E tools \in ToolsSet :
       request =
         NewRequest(Contents("string", <<Entry("string", "", <<"q">>, <<>>)>>),
                    tools)

\* generateContent up to makeRequest: the messages and the body
BuildRequest ==
  /\ request.built = "none"
  /\ LET messages == convertToOpenAIMessagesWithTools(request.contents)
     IN  request' = [request EXCEPT
                       !.built = "batch",
                       !.messages = messages,
                       !.body = BuildBody(messages, request.tools, FALSE)]
  /\ UNCHANGED <<genVars, lifeVars, other, decVars, resolution,
               openAIModelsConfig>>

\* generateContentStream up to makeStreamRequestExperimental
BuildStreamRequest ==
  /\ request.built = "none"
  /\ LET messages == convertToOpenAIMessagesWithTools(request.contents)
     IN  request' = [request EXCEPT
                       !.built = "stream",
                       !.messages = messages,
                       !.body = BuildBody(messages, request.tools, TRUE)]
  /\ UNCHANGED <<genVars, lifeVars, other, decVars, resolution,
               openAIModelsConfig>>

NextRequest ==
  \/ BuildRequest
  \/ BuildStreamRequest

SpecTools == InitTools /\ [][NextRequest]_vars

SpecMessages == InitMessages /\ [][NextRequest]_vars

\* the function declarations of a tool list
RECURSIVE Declarations(_)
Declarations(list) ==
  IF list = <<>> THEN <<>>
  ELSE (IF Head(list).functionDeclarations = "array"
          THEN Head(list).declarations ELSE <<>>)
         \o Declarations(Tail(list))

\* C24: the request body of either builder carries `tools` if and only if
\* the supplied tool list contains at least one function declaration, and
\* carries `tool_choice` if and only if it carries `tools`; an empty tools
\* array is never sent.
ToolsIffDeclarations ==
  request.built # "none" =>
    /\ request.body.stream = (request.built = "stream")
    /\ request.body.tools.set <=>
         Len(Declarations(request.tools.list)) >= 1
    /\ request.body.tool_choice.set <=> request.body.tools.set
    /\ request.body.tools.set =>
         /\ request.body.tools.list # <<>>
         /\ Len(request.body.tools.list) =
              Len(Declarations(request.tools.list))

\* the streaming builder was given a tool without declarations and a tool
\* with an empty declaration array, and sent neither tools nor tool_choice
NoDeclarationsWitness ==
  /\ request.built = "stream"
  /\ request.tools =
       Tools("array", <<Tool("missing", <<>>), Tool("array", <<>>)>>)
  /\ ~request.body.tools.set
  /\ ~request.body.tool_choice.set

(***************************************************************************)
(* Message conversion claims                                               *)
(***************************************************************************)
\* the history part a message was built from
PartOf(message) ==
  request.contents.items[message.entry].parts[message.part]

\* C25: each tool-role message of a request comes from exactly one
\* FunctionResponse part, and its tool_call_id is a back-reference: it
\* equals the id of a tool call carried by an assistant message that
\* precedes it in the same request.
ToolCallIdIsBackReference ==
  request.built # "none" =>
    \A k \in 1..Len(request.messages) :
      LET message == request.messages[k]
      IN  message.role = "tool" =>
            /\ message.part > 0
            /\ PartOf(message).kind = "functionResponse"
            /\ \E j \in 1..(k - 1) :
                 /\ request.messages[j].role = "assistant"
                 /\ \E t \in 1..Len(request.messages[j].tool_calls) :
                      request.messages[j].tool_calls[t].id =
                        message.tool_call_id

\* the body the claim states for a response
ExpectedBody(value) ==
  IF value.kind = "object"
    THEN IF value.output.present THEN value.output.text
         ELSE IF value.stdout.present THEN value.stdout.text
         ELSE IF value.result.present THEN value.result.text
         ELSE PrettyJSON(value)
    ELSE value.text

\* C26: the text body of the tool-role message built from a
\* FunctionResponse part is the string form of `output` if the response
\* object has that field, else of `stdout`, else of `result`, else the
\* pretty-printed JSON of the whole object; a response that is not an
\* object is stringified as is.
ToolMessageBodyByPriority ==
  request.built # "none" =>
    \A k \in 1..Len(request.messages) :
      LET message == request.messages[k]
      IN  (message.part > 0 /\ PartOf(message).response.kind # "undefined")
            => message.content = ExpectedBody(PartOf(message).response)

\* the role the claim states for the message of an entry
ExpectedRole(item) ==
  IF item.kind = "string" THEN "user"
  ELSE IF item.role = "model" THEN "assistant" ELSE item.role

\* the positions of the entries that are strings or have a role
KeptEntries ==
  SelectSeq([i \in 1..Len(request.contents.items) |-> i],
            LAMBDA i : request.contents.items[i].kind # "norole")

\* the messages built from entries, without those built from parts
EntryMessages == SelectSeq(request.messages, LAMBDA m : m.part = 0)

\* C27: for a history array, entries that lack a role are skipped and do
\* not make the conversion throw; the entries that have a role, or are
\* plain strings, are each translated to one message with that role
\* (model becoming assistant), in history order.
RolelessEntriesSkipped ==
  (request.built # "none" /\ request.contents.kind = "array") =>
    /\ Len(EntryMessages) = Len(KeptEntries)
    /\ \A k \in 1..Len(KeptEntries) :
         /\ EntryMessages[k].entry = KeptEntries[k]
         /\ EntryMessages[k].role =
              ExpectedRole(request.contents.items[KeptEntries[k]])

\* an entry without role before an entry of the model: one assistant
\* message is built, from the second entry
SkippedEntryWitness ==
  /\ request.built = "batch"
  /\ request.contents =
       Contents("array",
                <<Entry("norole", "", <<>>, <<>>),
                  Entry("content", "model", <<>>,
                        <<HistoryPart("text", <<"a">>, <<>>,
                                      ResponsePrimitive("undefined", <<>>))>>)>>)
  /\ Len(request.messages) = 1
  /\ request.messages[1].role = "assistant"
  /\ request.messages[1].entry = 2

RECURSIVE JoinLines(_)
\* texts joined by a newline
JoinLines(texts) ==
  IF texts = <<>> THEN <<>>
  ELSE IF Len(texts) = 1 THEN Head(texts)
  ELSE Head(texts) \o <<"\n">> \o JoinLines(Tail(texts))

\* the text parts of an entry
TextsOf(item) ==
  IF item.kind = "string" THEN <<item.text>>
  ELSE LET texts == SelectSeq(item.parts,
                              LAMBDA p : p.kind \in {"string", "text"}
                                           /\ p.text # <<>>)
       IN  [j \in 1..Len(texts) |-> texts[j].text]

RECURSIVE MergedRuns(_, _)
\* one [role, texts] per run of adjacent kept entries of the same role
MergedRuns(items, runs) ==
  IF items = <<>> THEN runs
  ELSE LET item == Head(items)
           role == ExpectedRole(item)
           n    == Len(runs)
       IN  IF item.kind = "norole" THEN MergedRuns(Tail(items), runs)
           ELSE IF n > 0 /\ runs[n].role = role
             THEN MergedRuns(Tail(items),
                             [runs EXCEPT ![n].texts = @ \o TextsOf(item)])
           ELSE MergedRuns(Tail(items),
                           Append(runs, [role |-> role,
                                         texts |-> TextsOf(item)]))

\* C28: the request holds a single message for a run of adjacent history
\* entries of the same role, and its content is the text parts of those
\* entries joined by a newline, in arrival order.
SameRoleEntriesMerged ==
  (request.built # "none" /\ request.contents.kind = "array") =>
    LET runs == MergedRuns(request.contents.items, <<>>)
    IN  /\ Len(EntryMessages) = Len(runs)
        /\ \A k \in 1..Len(runs) :
             /\ EntryMessages[k].role = runs[k].role
             /\ EntryMessages[k].content = JoinLines(runs[k].texts)

(***************************************************************************)
(* The model resolver: the two model configuration modules                 *)
(* (src/unnamed/part_004 and src/unnamed/part_005).  A definition that     *)
(* differs between the two carries the number of its module.               *)
(***************************************************************************)
\* 'gemini-3-pro-preview'
PREVIEW_GEMINI_MODEL ==
  <<"g", "e", "m", "i", "n", "i", "-", "3", "-", "p", "r", "o", "-", "p",
  "r", "e", "v", "i", "e", "w">>

\* 'gemini-3-flash-preview'
PREVIEW_GEMINI_FLASH_MODEL ==
  <<"g", "e", "m", "i", "n", "i", "-", "3", "-", "f", "l", "a", "s", "h",
  "-", "p", "r", "e", "v", "i", "e", "w">>

\* 'gemini-2.5-pro'
DEFAULT_GEMINI_MODEL ==
  <<"g", "e", "m", "i", "n", "i", "-", "2", ".", "5", "-", "p", "r", "o">>

\* 'gemini-2.5-flash'
DEFAULT_GEMINI_FLASH_MODEL ==
  <<"g", "e", "m", "i", "n", "i", "-", "2", ".", "5", "-", "f", "l", "a",
  "s", "h">>

\* 'gemini-2.5-flash-lite'
DEFAULT_GEMINI_FLASH_LITE_MODEL ==
  <<"g", "e", "m", "i", "n", "i", "-", "2", ".", "5", "-", "f", "l", "a",
  "s", "h", "-", "l", "i", "t", "e">>

\* 'auto-gemini-3'
PREVIEW_GEMINI_MODEL_AUTO ==
  <<"a", "u", "t", "o", "-", "g", "e", "m", "i", "n", "i", "-", "3">>

\* 'auto-gemini-2.5'
DEFAULT_GEMINI_MODEL_AUTO_004 ==
  <<"a", "u", "t", "o", "-", "g", "e", "m", "i", "n", "i", "-", "2", ".",
  "5">>

\* 'auto'
DEFAULT_GEMINI_MODEL_AUTO_005 ==
  <<"a", "u", "t", "o">>

\* 'pro'
GEMINI_MODEL_ALIAS_PRO ==
  <<"p", "r", "o">>

\* 'flash'
GEMINI_MODEL_ALIAS_FLASH ==
  <<"f", "l", "a", "s", "h">>

\* 'flash-lite'
GEMINI_MODEL_ALIAS_FLASH_LITE ==
  <<"f", "l", "a", "s", "h", "-", "l", "i", "t", "e">>

\* 'deepseek-v3-2-251201'
DEEEPSEEK_V32 ==
  <<"d", "e", "e", "p", "s", "e", "e", "k", "-", "v", "3", "-", "2", "-",
  "2", "5", "1", "2", "0", "1">>

\* 'doubao-seed-1-8-251215'
DOUBAO_SEED_18_004 ==
  <<"d", "o", "u", "b", "a", "o", "-", "s", "e", "e", "d", "-", "1", "-",
  "8", "-", "2", "5", "1", "2", "1", "5">>

\* 'doubao-seed-1-8-251215"'
DOUBAO_SEED_18_005 ==
  <<"d", "o", "u", "b", "a", "o", "-", "s", "e", "e", "d", "-", "1", "-",
  "8", "-", "2", "5", "1", "2", "1", "5", "\"">>

\* 'kimi-k2-thinking-251104'
KIMI_K2 ==
  <<"k", "i", "m", "i", "-", "k", "2", "-", "t", "h", "i", "n", "k", "i",
  "n", "g", "-", "2", "5", "1", "1", "0", "4">>

\* 'standard'
OPENAI_MODEL_ALIAS_STANDARD ==
  <<"s", "t", "a", "n", "d", "a", "r", "d">>

\* 'turbo'
OPENAI_MODEL_ALIAS_TURBO ==
  <<"t", "u", "r", "b", "o">>

\* 'pro'
OPENAI_MODEL_ALIAS_PRO ==
  <<"p", "r", "o">>

\* 'multimodal'
OPENAI_MODEL_ALIAS_MULTIMODAL ==
  <<"m", "u", "l", "t", "i", "m", "o", "d", "a", "l">>

\* the argument of resolvedModel.includes('lite')
Lite ==
  <<"l", "i", "t", "e">>

\* a model name neither module knows
CustomModel ==
  <<"q", "w", "e", "n", "3", "-", "m", "a", "x">>

\* an unknown name in which 'lite' occurs
CustomLiteModel ==
  <<"e", "l", "i", "t", "e", "-", "1">>

\* number of times a resolver is applied to its own result
MaxResolutions == 2

\* s.includes(sub)
Includes(s, sub) ==
  \E i \in 1..(Len(s) - Len(sub) + 1) :
    SubSeq(s, i, i + Len(sub) - 1) = sub

\* resolveModel of part_004
resolveModel_004(requestedModel, previewFeaturesEnabled) ==
  CASE requestedModel = PREVIEW_GEMINI_MODEL_AUTO -> PREVIEW_GEMINI_MODEL
    [] requestedModel = DEFAULT_GEMINI_MODEL_AUTO_004 -> DEFAULT_GEMINI_MODEL
    [] requestedModel = GEMINI_MODEL_ALIAS_PRO ->
         IF previewFeaturesEnabled THEN PREVIEW_GEMINI_MODEL
                                   ELSE DEFAULT_GEMINI_MODEL
    [] requestedModel = GEMINI_MODEL_ALIAS_FLASH ->
         IF previewFeaturesEnabled THEN PREVIEW_GEMINI_FLASH_MODEL
                                   ELSE DEFAULT_GEMINI_FLASH_MODEL
    [] requestedModel = GEMINI_MODEL_ALIAS_FLASH_LITE ->
         DEFAULT_GEMINI_FLASH_LITE_MODEL
    [] OTHER -> requestedModel

\* getEffectiveModel of part_004: it has no fallback parameter
getEffectiveModel_004(requestedModel, previewFeaturesEnabled) ==
  resolveModel_004(requestedModel, previewFeaturesEnabled)

\* the auto alias resolves to the pro alias, to be resolved once more
resolveModelChained_005(requestedModel, previewFeaturesEnabled) ==
  CASE requestedModel = DEFAULT_GEMINI_MODEL_AUTO_005 ->
         GEMINI_MODEL_ALIAS_PRO
    [] requestedModel = GEMINI_MODEL_ALIAS_PRO ->
         IF previewFeaturesEnabled THEN PREVIEW_GEMINI_MODEL
                                   ELSE DEFAULT_GEMINI_MODEL
    [] requestedModel = GEMINI_MODEL_ALIAS_FLASH -> DEFAULT_GEMINI_FLASH_MODEL
    [] requestedModel = GEMINI_MODEL_ALIAS_FLASH_LITE ->
         DEFAULT_GEMINI_FLASH_LITE_MODEL
    [] OTHER -> requestedModel

\* resolveModel of part_005
resolveModel_005(requestedModel, previewFeaturesEnabled) ==
  CASE requestedModel \in {DEFAULT_GEMINI_MODEL_AUTO_005,
                           GEMINI_MODEL_ALIAS_PRO} ->
         IF previewFeaturesEnabled THEN PREVIEW_GEMINI_MODEL
                                   ELSE DEFAULT_GEMINI_MODEL
    [] requestedModel = GEMINI_MODEL_ALIAS_FLASH -> DEFAULT_GEMINI_FLASH_MODEL
    [] requestedModel = GEMINI_MODEL_ALIAS_FLASH_LITE ->
         DEFAULT_GEMINI_FLASH_LITE_MODEL
    [] OTHER -> requestedModel

\* in fallback mode every request is downgraded, lite models too
getEffectiveModelAlwaysFlash_005(isInFallbackMode, requestedModel, previewFeaturesEnabled) ==
  IF ~isInFallbackMode
    THEN resolveModel_005(requestedModel, previewFeaturesEnabled)
    ELSE DEFAULT_GEMINI_FLASH_MODEL

\* getEffectiveModel of part_005
getEffectiveModel_005(isInFallbackMode, requestedModel, previewFeaturesEnabled) ==
  LET resolvedModel == resolveModel_005(requestedModel, previewFeaturesEnabled)
  IN  IF ~isInFallbackMode THEN resolvedModel
      ELSE IF Includes(resolvedModel, Lite) THEN resolvedModel
      ELSE DEFAULT_GEMINI_FLASH_MODEL

\* a resolver that maps every name outside its table to the standard model
resolveOpenAIModelDefaulting_004(requestedModel) ==
  IF requestedModel \in {OPENAI_MODEL_ALIAS_PRO, DOUBAO_SEED_18_004}
    THEN DOUBAO_SEED_18_004
  ELSE IF requestedModel \in {OPENAI_MODEL_ALIAS_MULTIMODAL, KIMI_K2}
    THEN KIMI_K2
  ELSE DEEEPSEEK_V32

\* resolveOpenAIModel of part_004
resolveOpenAIModel_004(requestedModel) ==
  CASE requestedModel \in {OPENAI_MODEL_ALIAS_STANDARD,
                           OPENAI_MODEL_ALIAS_TURBO} -> DEEEPSEEK_V32
    [] requestedModel = OPENAI_MODEL_ALIAS_PRO -> DOUBAO_SEED_18_004
    [] requestedModel = OPENAI_MODEL_ALIAS_MULTIMODAL -> KIMI_K2
    [] OTHER -> requestedModel

\* resolveOpenAIModel of part_005
resolveOpenAIModel_005(requestedModel) ==
  CASE requestedModel \in {OPENAI_MODEL_ALIAS_STANDARD,
                           OPENAI_MODEL_ALIAS_TURBO} -> DEEEPSEEK_V32
    [] requestedModel = OPENAI_MODEL_ALIAS_PRO -> DOUBAO_SEED_18_005
    [] requestedModel = OPENAI_MODEL_ALIAS_MULTIMODAL -> KIMI_K2
    [] OTHER -> requestedModel

\* the aliases, the concrete model ids and unknown strings
ModelNameSet ==
  {PREVIEW_GEMINI_MODEL, PREVIEW_GEMINI_FLASH_MODEL, DEFAULT_GEMINI_MODEL,
   DEFAULT_GEMINI_FLASH_MODEL, DEFAULT_GEMINI_FLASH_LITE_MODEL,
   PREVIEW_GEMINI_MODEL_AUTO, DEFAULT_GEMINI_MODEL_AUTO_004,
   DEFAULT_GEMINI_MODEL_AUTO_005, GEMINI_MODEL_ALIAS_PRO,
   GEMINI_MODEL_ALIAS_FLASH, GEMINI_MODEL_ALIAS_FLASH_LITE, DEEEPSEEK_V32,
   DOUBAO_SEED_18_004, DOUBAO_SEED_18_005, KIMI_K2,
   OPENAI_MODEL_ALIAS_STANDARD, OPENAI_MODEL_ALIAS_TURBO,
   OPENAI_MODEL_ALIAS_MULTIMODAL, CustomModel, CustomLiteModel, <<>>}

\* the functions that take no fallback flag
PlainResolvers ==
  {"resolveModel_004", "getEffectiveModel_004", "resolveModel_005",
   "resolveOpenAIModel_004", "resolveOpenAIModel_005"}

\* a call that is about to be made; a function without a parameter ignores
\* the field of that name
Resolution(fn, requestedModel, previewFeaturesEnabled, isInFallbackMode) ==
  [fn |-> fn, requestedModel |-> requestedModel,
   previewFeaturesEnabled |-> previewFeaturesEnabled,
   isInFallbackMode |-> isInFallbackMode, modelAlias |-> <<>>,
   providerModel |-> <<>>, results |-> <<>>]

\* a resolver is about to be called on a model name
InitResolve ==
  /\ IdleGenerate
  /\ openAIModelsConfig = NullConfig
  /\ request = NoRequest
  /\ \E requestedModel \in ModelNameSet, previewFeaturesEnabled \in BOOLEAN :
       \/ \E fn \in PlainResolvers :
            resolution =
              Resolution(fn, requestedModel, previewFeaturesEnabled, FALSE)
       \/ \E isInFallbackMode \in BOOLEAN :
            resolution =
              Resolution("getEffectiveModel_005", requestedModel,
                         previewFeaturesEnabled, isInFallbackMode)

\* the name the next call resolves: the requested one, then the last result
Argument ==
  IF resolution.results = <<>> THEN resolution.requestedModel
  ELSE resolution.results[Len(resolution.results)]

\* fn is called on the argument and its result is kept
Called(fn, result) ==
  /\ resolution.fn = fn
  /\ Len(resolution.results) < MaxResolutions
  /\ resolution' = [resolution EXCEPT !.results = Append(@, result)]
  /\ UNCHANGED <<genVars, lifeVars, other, decVars, request,
               openAIModelsConfig>>

ResolveModel004 ==
  Called("resolveModel_004",
         resolveModel_004(Argument, resolution.previewFeaturesEnabled))

GetEffectiveModel004 ==
  Called("getEffectiveModel_004",
         getEffectiveModel_004(Argument, resolution.previewFeaturesEnabled))

ResolveModel005 ==
  Called("resolveModel_005",
         resolveModel_005(Argument, resolution.previewFeaturesEnabled))

GetEffectiveModel005 ==
  Called("getEffectiveModel_005",
         getEffectiveModel_005(resolution.isInFallbackMode, Argument,
                               resolution.previewFeaturesEnabled))

ResolveOpenAIModel004 ==
  Called("resolveOpenAIModel_004", resolveOpenAIModel_004(Argument))

ResolveOpenAIModel005 ==
  Called("resolveOpenAIModel_005", resolveOpenAIModel_005(Argument))

NextResolve ==
  \/ ResolveModel004
  \/ GetEffectiveModel004
  \/ ResolveModel005
  \/ GetEffectiveModel005
  \/ ResolveOpenAIModel004
  \/ ResolveOpenAIModel005

SpecResolve == InitResolve /\ [][NextResolve]_vars

(***************************************************************************)
(* Model resolver claims                                                   *)
(***************************************************************************)
\* the requests for a pro model: the pro and auto aliases and the concrete
\* pro model ids
ProRequests ==
  {GEMINI_MODEL_ALIAS_PRO, DEFAULT_GEMINI_MODEL_AUTO_005,
   DEFAULT_GEMINI_MODEL, PREVIEW_GEMINI_MODEL}

\* C29: with fallback mode active getEffectiveModel returns the lightweight
\* default model for every request whose resolved name does not indicate a
\* lite tier (the pro and auto aliases and the concrete pro ids among them,
\* whatever the preview flag) and the resolved lite model unchanged for
\* every request whose resolved name does; with fallback mode inactive it
\* returns exactly the result of resolveModel.
FallbackDowngradesAllButLite ==
  /\ (resolution.fn = "getEffectiveModel_005" /\ resolution.results # <<>>) =>
       LET resolved == resolveModel_005(resolution.requestedModel,
                                        resolution.previewFeaturesEnabled)
           result   == resolution.results[1]
       IN  /\ (resolution.isInFallbackMode /\ ~Includes(resolved, Lite)) =>
                result = DEFAULT_GEMINI_FLASH_MODEL
           /\ (resolution.isInFallbackMode
                 /\ resolution.requestedModel \in ProRequests) =>
                result = DEFAULT_GEMINI_FLASH_MODEL
           /\ (resolution.isInFallbackMode /\ Includes(resolved, Lite)) =>
                result = resolved
           /\ ~resolution.isInFallbackMode => result = resolved
  /\ (resolution.fn = "getEffectiveModel_004" /\ resolution.results # <<>>) =>
       resolution.results[1] =
         resolveModel_004(resolution.requestedModel,
                          resolution.previewFeaturesEnabled)

\* in fallback mode the lite alias was resolved and kept
LiteHonouredWitness ==
  /\ resolution.fn = "getEffectiveModel_005"
  /\ resolution.isInFallbackMode
  /\ resolution.requestedModel = GEMINI_MODEL_ALIAS_FLASH_LITE
  /\ resolution.results = <<DEFAULT_GEMINI_FLASH_LITE_MODEL>>

\* C30: model resolution is idempotent: for every alias, concrete model id
\* and unknown string, and each value of the preview and fallback flags,
\* resolving the result of a resolution returns that same result, for
\* resolveModel, getEffectiveModel and resolveOpenAIModel.
ResolutionIsIdempotent ==
  \A k \in 2..Len(resolution.results) :
    resolution.results[k] = resolution.results[1]

\* the auto alias was resolved with preview features on, and its result
\* resolved again
ResolvedTwiceWitness ==
  /\ resolution.fn = "resolveModel_005"
  /\ resolution.requestedModel = DEFAULT_GEMINI_MODEL_AUTO_005
  /\ resolution.previewFeaturesEnabled
  /\ resolution.results = <<PREVIEW_GEMINI_MODEL, PREVIEW_GEMINI_MODEL>>

(***************************************************************************)
(* Classifier routing (part_004): the classifier's decision, 'flash' or    *)
(* 'pro', is applied to the requested model                                *)
(***************************************************************************)
\* resolveClassifierModel of part_004
resolveClassifierModel_004(requestedModel, modelAlias, previewFeaturesEnabled) ==
  IF modelAlias = GEMINI_MODEL_ALIAS_FLASH
    THEN IF requestedModel \in {DEFAULT_GEMINI_MODEL_AUTO_004,
                                DEFAULT_GEMINI_MODEL}
           THEN DEFAULT_GEMINI_FLASH_MODEL
         ELSE IF requestedModel \in {PREVIEW_GEMINI_MODEL_AUTO,
                                     PREVIEW_GEMINI_MODEL}
           THEN PREVIEW_GEMINI_FLASH_MODEL
         ELSE resolveModel_004(GEMINI_MODEL_ALIAS_FLASH,
                               previewFeaturesEnabled)
    ELSE resolveModel_004(requestedModel, previewFeaturesEnabled)

\* isPreviewModel of part_004
isPreviewModel_004(model) ==
  \/ model = PREVIEW_GEMINI_MODEL
  \/ model = PREVIEW_GEMINI_FLASH_MODEL
  \/ model = PREVIEW_GEMINI_MODEL_AUTO

\* a request about to be routed by the classifier's decision
Classification(requestedModel, modelAlias, previewFeaturesEnabled) ==
  [Resolution("resolveClassifierModel_004", requestedModel,
              previewFeaturesEnabled, FALSE)
     EXCEPT !.modelAlias = modelAlias]

InitRoute ==
  /\ IdleGenerate
  /\ openAIModelsConfig = NullConfig
  /\ request = NoRequest
  /\ \E requestedModel \in ModelNameSet, previewFeaturesEnabled \in BOOLEAN,
        modelAlias \in {GEMINI_MODEL_ALIAS_FLASH, GEMINI_MODEL_ALIAS_PRO} :
       resolution =
         Classification(requestedModel, modelAlias, previewFeaturesEnabled)

ResolveClassifierModel004 ==
  /\ resolution.fn = "resolveClassifierModel_004"
  /\ resolution.results = <<>>
  /\ resolution' =
       [resolution EXCEPT !.results =
          <<resolveClassifierModel_004(resolution.requestedModel,
                                       resolution.modelAlias,
                                       resolution.previewFeaturesEnabled)>>]
  /\ UNCHANGED <<genVars, lifeVars, other, decVars, request,
               openAIModelsConfig>>

NextRoute == ResolveClassifierModel004

SpecRoute == InitRoute /\ [][NextRoute]_vars

\* the flash-tier models
FlashModels == {DEFAULT_GEMINI_FLASH_MODEL, PREVIEW_GEMINI_FLASH_MODEL}

\* C31: for every requested model and every value of the preview flag,
\* resolveClassifierModel with the hint `flash` returns a flash-tier model
\* for which isPreviewModel answers as it does for the result of
\* resolveModel on the same request.
ClassifierKeepsPreviewStatus ==
  (resolution.fn = "resolveClassifierModel_004"
     /\ resolution.modelAlias = GEMINI_MODEL_ALIAS_FLASH
     /\ resolution.results # <<>>) =>
    /\ resolution.results[1] \in FlashModels
    /\ isPreviewModel_004(resolution.results[1]) =
         isPreviewModel_004(
           resolveModel_004(resolution.requestedModel,
                            resolution.previewFeaturesEnabled))

\* the auto aliases
AutoAliases ==
  {DEFAULT_GEMINI_MODEL_AUTO_005, DEFAULT_GEMINI_MODEL_AUTO_004,
   PREVIEW_GEMINI_MODEL_AUTO}

\* C35: under automatic routing (an auto alias is requested) a prompt
\* classified as simple is routed to Gemini 2.5 Flash, and a prompt
\* classified as complex to Gemini 3 Pro when preview features are enabled
\* and to Gemini 2.5 Pro otherwise.
AutoRoutingByComplexity ==
  (resolution.fn = "resolveClassifierModel_004"
     /\ resolution.requestedModel \in AutoAliases
     /\ resolution.results # <<>>) =>
    resolution.results[1] =
      IF resolution.modelAlias = GEMINI_MODEL_ALIAS_FLASH
        THEN DEFAULT_GEMINI_FLASH_MODEL
      ELSE IF resolution.previewFeaturesEnabled THEN PREVIEW_GEMINI_MODEL
      ELSE DEFAULT_GEMINI_MODEL

\* C32: every auto alias (`auto`, `auto-gemini-2.5`, `auto-gemini-3`)
\* resolves through resolveModel to a preview model when preview features
\* are enabled and to the corresponding stable model when they are not;
\* the result is never the alias itself.
AutoAliasesFollowPreview ==
  (resolution.fn \in {"resolveModel_004", "resolveModel_005"}
     /\ resolution.requestedModel \in AutoAliases
     /\ resolution.results # <<>>) =>
    /\ resolution.results[1] # resolution.requestedModel
    /\ resolution.results[1] =
         IF resolution.previewFeaturesEnabled THEN PREVIEW_GEMINI_MODEL
                                              ELSE DEFAULT_GEMINI_MODEL

\* the alias tables of the resolvers
GeminiAliases ==
  AutoAliases \cup {GEMINI_MODEL_ALIAS_PRO, GEMINI_MODEL_ALIAS_FLASH,
                    GEMINI_MODEL_ALIAS_FLASH_LITE}

OpenAIAliases ==
  {OPENAI_MODEL_ALIAS_STANDARD, OPENAI_MODEL_ALIAS_TURBO,
   OPENAI_MODEL_ALIAS_PRO, OPENAI_MODEL_ALIAS_MULTIMODAL}

\* C34: a model string that is in no alias table passes through
\* resolveModel and resolveOpenAIModel unchanged, for every value of the
\* preview flag.
UnknownModelsPassThrough ==
  (resolution.fn \in {"resolveModel_004", "resolveModel_005",
                      "resolveOpenAIModel_004", "resolveOpenAIModel_005"}
     /\ resolution.requestedModel \notin GeminiAliases \cup OpenAIAliases) =>
    \A k \in 1..Len(resolution.results) :
      resolution.results[k] = resolution.requestedModel

\* a custom model id went through resolveOpenAIModel with the preview flag
\* set
CustomModelWitness ==
  /\ resolution.fn = "resolveOpenAIModel_004"
  /\ resolution.requestedModel = CustomModel
  /\ resolution.previewFeaturesEnabled
  /\ resolution.results = <<CustomModel>>

(***************************************************************************)
(* The configured model tables (part_004, second definitions): the OpenAI  *)
(* aliases are read from a configuration that loadOpenAIModelsConfig loads *)
(* from the environment or from openai-models.json and caches              *)
(***************************************************************************)
\* what reading a missing member of an object gives, as a resolver result
UndefinedModel == <<"undefined">>

\* an alias the configuration defines
Alias(value) == [set |-> TRUE, value |-> value]

\* what OPENAI_MODEL_ALIASES holds when it parses: the pro alias only
EnvAliases ==
  [standard |-> NoAlias, pro |-> Alias(CustomModel), multimodal |-> NoAlias]

\* an openai-models.json that defines every alias
FileConfig ==
  [defaultModel |-> DOUBAO_SEED_18_004,
   models |-> <<DEEEPSEEK_V32, DOUBAO_SEED_18_004, KIMI_K2>>,
   aliases |-> [standard |-> Alias(DEEEPSEEK_V32),
                pro |-> Alias(DOUBAO_SEED_18_004),
                multimodal |-> Alias(KIMI_K2)]]

\* the process environment and the working directory: OPENAI_MODELS and
\* OPENAI_MODEL_ALIASES are "unset", "invalid" (not JSON) or "valid",
\* OPENAI_DEFAULT_MODEL is a name or empty, the file is "missing" or "valid"
EnvironmentSet ==
  [modelsEnv : {"unset", "invalid", "valid"},
   models : {<<>>, <<CustomModel>>},
   aliasesEnv : {"unset", "invalid", "valid"},
   defaultModelEnv : {<<>>, KIMI_K2},
   file : {"missing", "valid"}]

\* the configuration loadOpenAIModelsConfig builds when none is cached
LoadedConfig(env) ==
  IF env.modelsEnv = "valid" /\ env.aliasesEnv # "invalid"
    THEN [defaultModel |->
            IF env.defaultModelEnv # <<>> THEN env.defaultModelEnv
            ELSE IF env.models # <<>> THEN env.models[1]
            ELSE <<>>,
          models |-> env.models,
          aliases |-> IF env.aliasesEnv = "valid"
                        THEN EnvAliases
                        ELSE DefaultOpenAIModelsConfig.aliases]
  ELSE IF env.file = "valid" THEN FileConfig
  ELSE DefaultOpenAIModelsConfig

\* getOpenAIModelsConfig: openAIModelsConfig || getDefaultOpenAIModelsConfig()
getOpenAIModelsConfig ==
  IF openAIModelsConfig.loaded THEN openAIModelsConfig.config
                               ELSE DefaultOpenAIModelsConfig

\* config.aliases[key]
AliasOf(alias) == IF alias.set THEN alias.value ELSE UndefinedModel

\* resolveOpenAIModel of part_004, second definition
resolveOpenAIModel_004b(requestedModel) ==
  LET config == getOpenAIModelsConfig
  IN  CASE requestedModel \in {OPENAI_MODEL_ALIAS_STANDARD,
                               OPENAI_MODEL_ALIAS_TURBO} ->
             AliasOf(config.aliases.standard)
        [] requestedModel = OPENAI_MODEL_ALIAS_PRO ->
             AliasOf(config.aliases.pro)
        [] requestedModel = OPENAI_MODEL_ALIAS_MULTIMODAL ->
             AliasOf(config.aliases.multimodal)
        [] OTHER -> requestedModel

\* DEFAULT_GEMINI_FLASH_LITE_MODEL of the second definitions: the default
\* model of the configuration when the module is evaluated, which is before
\* any call of loadOpenAIModelsConfig
DEFAULT_GEMINI_FLASH_LITE_MODEL_004b == DefaultOpenAIModelsConfig.defaultModel

\* resolveModel of part_004, second definition
resolveModel_004b(requestedModel, previewFeaturesEnabled) ==
  CASE requestedModel = PREVIEW_GEMINI_MODEL_AUTO -> PREVIEW_GEMINI_MODEL
    [] requestedModel = DEFAULT_GEMINI_MODEL_AUTO_004 -> DEFAULT_GEMINI_MODEL
    [] requestedModel = GEMINI_MODEL_ALIAS_PRO ->
         IF previewFeaturesEnabled THEN PREVIEW_GEMINI_MODEL
                                   ELSE DEFAULT_GEMINI_MODEL
    [] requestedModel = GEMINI_MODEL_ALIAS_FLASH ->
         IF previewFeaturesEnabled THEN PREVIEW_GEMINI_FLASH_MODEL
                                   ELSE DEFAULT_GEMINI_FLASH_MODEL
    [] requestedModel = GEMINI_MODEL_ALIAS_FLASH_LITE ->
         DEFAULT_GEMINI_FLASH_LITE_MODEL_004b
    [] OTHER -> requestedModel

\* the names with a case in one of the two switches
ConfiguredAliases ==
  {PREVIEW_GEMINI_MODEL_AUTO, DEFAULT_GEMINI_MODEL_AUTO_004,
   GEMINI_MODEL_ALIAS_PRO, GEMINI_MODEL_ALIAS_FLASH,
   GEMINI_MODEL_ALIAS_FLASH_LITE, OPENAI_MODEL_ALIAS_STANDARD,
   OPENAI_MODEL_ALIAS_TURBO, OPENAI_MODEL_ALIAS_MULTIMODAL}

InitConfig ==
  /\ IdleGenerate
  /\ request = NoRequest
  /\ openAIModelsConfig = NullConfig
  /\ \E fn \in {"resolveModel_004b", "resolveOpenAIModel_004b"},
        requestedModel \in ConfiguredAliases \cup {CustomModel},
        previewFeaturesEnabled \in BOOLEAN :
       resolution = Resolution(fn, requestedModel, previewFeaturesEnabled,
                               FALSE)

\* loadOpenAIModelsConfig: the cached configuration is returned when there
\* is one; otherwise the environment decides what is cached
LoadOpenAIModelsConfig ==
  /\ \E env \in EnvironmentSet :
       openAIModelsConfig' =
         IF openAIModelsConfig.loaded THEN openAIModelsConfig
         ELSE [loaded |-> TRUE, config |-> LoadedConfig(env)]
  /\ UNCHANGED <<genVars, lifeVars, other, decVars, request, resolution>>

\* fn is called once more on the requested model
CalledAgain(fn, result) ==
  /\ resolution.fn = fn
  /\ Len(resolution.results) < MaxResolutions
  /\ resolution' = [resolution EXCEPT !.results = Append(@, result)]
  /\ UNCHANGED <<genVars, lifeVars, other, decVars, request,
                 openAIModelsConfig>>

ResolveModel004b ==
  CalledAgain("resolveModel_004b",
              resolveModel_004b(resolution.requestedModel,
                                resolution.previewFeaturesEnabled))

ResolveOpenAIModel004b ==
  CalledAgain("resolveOpenAIModel_004b",
              resolveOpenAIModel_004b(resolution.requestedModel))

NextConfig ==
  \/ LoadOpenAIModelsConfig
  \/ ResolveModel004b
  \/ ResolveOpenAIModel004b

SpecConfig == InitConfig /\ [][NextConfig]_vars

\* C33: the alias table is fixed from process start: for every alias,
\* resolveModel and resolveOpenAIModel return the same non-empty concrete
\* model id at every point of the process lifetime, whether they are called
\* before or after loadOpenAIModelsConfig has run.
AliasTableFixedFromStart ==
  (resolution.fn \in {"resolveModel_004b", "resolveOpenAIModel_004b"}
     /\ resolution.requestedModel \in ConfiguredAliases) =>
    \A k \in 1..Len(resolution.results) :
      /\ resolution.results[k] \notin {UndefinedModel, <<>>}
      /\ resolution.results[k] = resolution.results[1]

(***************************************************************************)
(* modelVersion and the candidate list of the responses the batch          *)
(* conversion and the stream generator build                               *)
(***************************************************************************)
\* 'unknown'
UnknownModel == <<"u", "n", "k", "n", "o", "w", "n">>

\* a || b on model names: the empty string and undefined are falsy
OrElseModel(a, b) == IF a \notin {<<>>, UndefinedModel} THEN a ELSE b

\* const candidate = { content: { parts, role: 'model' }, ... };
\* generateContentResponse.candidates = [candidate]
Candidates == <<[role |-> "model"]>>

\* convertToGenerateContentResponse: response.model || 'unknown', for a
\* completion with choices ("batch") and for one without ("invalid")
BatchVersioned(providerModel) ==
  [candidates |-> Candidates,
   modelVersion |-> OrElseModel(providerModel, UnknownModel)]

\* the events of the loop: chunk['model'] || this.model || 'unknown'
ChunkVersioned(providerModel, model) ==
  [candidates |-> Candidates,
   modelVersion |->
     OrElseModel(providerModel, OrElseModel(model, UnknownModel))]

\* the event after the loop when nothing was yielded:
\* this.model || 'unknown'
FallbackVersioned(model) ==
  [candidates |-> Candidates,
   modelVersion |-> OrElseModel(model, UnknownModel)]

\* the places that build a response
VersionedPaths == {"batch", "invalid", "text", "empty", "tool", "fallback"}

Versioned(path, providerModel, model) ==
  CASE path \in {"batch", "invalid"} -> BatchVersioned(providerModel)
    [] path \in {"text", "empty", "tool"} ->
         ChunkVersioned(providerModel, model)
    [] OTHER -> FallbackVersioned(model)

\* what the provider's `model` member holds: absent, empty or a name
ProviderModelSet == {UndefinedModel, <<>>, KIMI_K2, DEEEPSEEK_V32}

\* config.model of the generator
RequestedModelSet == {KIMI_K2, DEEEPSEEK_V32, CustomModel, DOUBAO_SEED_18_004}

\* a response about to be built on one of the paths
Versioning(path, providerModel, model) ==
  [Resolution(path, model, FALSE, FALSE)
     EXCEPT !.providerModel = providerModel]

InitVersion ==
  /\ IdleGenerate
  /\ request = NoRequest
  /\ openAIModelsConfig = NullConfig
  /\ \E path \in VersionedPaths, providerModel \in ProviderModelSet,
        model \in RequestedModelSet :
       resolution = Versioning(path, providerModel, model)

\* the response is built
BuildVersioned ==
  /\ resolution.fn \in VersionedPaths
  /\ resolution.results = <<>>
  /\ resolution' =
       [resolution EXCEPT !.results =
          <<Versioned(resolution.fn, resolution.providerModel,
                      resolution.requestedModel)>>]
  /\ UNCHANGED <<genVars, lifeVars, other, decVars, request,
                 openAIModelsConfig>>

NextVersion == BuildVersioned

SpecVersion == InitVersion /\ [][NextVersion]_vars

\* C36: every response and event of the batch path and of the streaming
\* path has exactly one candidate, with role `model`, and its modelVersion
\* is the model name the provider echoed when there is one and the
\* requested model name otherwise.
ModelVersionEchoedOrRequested ==
  (resolution.fn \in VersionedPaths /\ resolution.results # <<>>) =>
    /\ Len(resolution.results[1].candidates) = 1
    /\ resolution.results[1].candidates[1].role = "model"
    /\ resolution.results[1].modelVersion =
         OrElseModel(resolution.providerModel, resolution.requestedModel)

(***************************************************************************)
(* A stream whose tool-call fragments carry ids                            *)
(***************************************************************************)
IdSet == {<<>>, <<"x">>, <<"y">>}

\* frames carrying one fragment, with or without an id and a name
IdFrames ==
  {Frame("ok", <<>>, r, <<FragmentWithId(i, id, n, <<>>)>>, NoUsage) :
     r \in {"", "tool_calls"}, i \in 0..MaxIndex, id \in IdSet,
     n \in {<<>>, <<"f">>}}

NextIds ==
  \/ \E chunk \in SkippedFrames \cup IdFrames : SkipChunk(chunk)
  \/ \E chunk \in SkippedFrames \cup IdFrames : ProcessChunk(chunk)
  \/ StreamEnd

SpecIds == Init /\ [][NextIds]_vars

\* the non-empty ids the fragments of index i carried, in arrival order
IdsOf(i) ==
  LET with == SelectSeq(FragmentsOf(i, Len(consumed)),
                        LAMBDA g : g.id # <<>>)
  IN  [k \in 1..Len(with) |-> with[k].id]

\* C37: for each tool-call index the id the accumulator keeps is the first
\* non-empty id carried by any fragment for that index, also when that
\* fragment is not the first one received for the index; a synthesized id
\* is kept only when no fragment for the index ever carries an id.
FirstNonEmptyIdWins ==
  \A i \in 0..(Len(accumulatedToolCalls) - 1) :
    accumulatedToolCalls[i + 1].present =>
      accumulatedToolCalls[i + 1].id =
        IF IdsOf(i) # <<>> THEN IdsOf(i)[1] ELSE SynthesizedId(i)

\* the step pulls a frame that one of the two `continue`s skips
PullsSkippedFrame ==
  /\ Len(consumed') = Len(consumed) + 1
  /\ IsSkipped(consumed'[Len(consumed')])

\* C38: a frame whose choice array is missing or empty, or whose first
\* choice has no delta, emits no event and leaves the accumulated text, the
\* tool-call slots, the usage snapshot and the has-emitted flag unchanged,
\* also when it carries usage or a finish marker; the loop goes on.
SkippedFrameChangesNothing ==
  [][PullsSkippedFrame =>
       /\ events' = events
       /\ accumulatedCompletionContent' = accumulatedCompletionContent
       /\ accumulatedToolCalls' = accumulatedToolCalls
       /\ accumulatedUsage' = accumulatedUsage
       /\ hasYielded' = hasYielded
       /\ pc' = "open"]_vars

\* after a frame with text and a usage object, a frame without delta that
\* carries another usage object and a finish marker was skipped
SkippedUsageFrameWitness ==
  /\ pc = "open"
  /\ Len(consumed) = 2
  /\ ~IsSkipped(consumed[1])
  /\ consumed[1].usage = Usage(2, 2, 5)
  /\ consumed[1].content = <<"a">>
  /\ consumed[2] = Frame("nodelta", <<>>, "stop", <<>>, Usage(1, 1, 2))
  /\ accumulatedUsage.total_tokens = 5
  /\ accumulatedCompletionContent = <<"a">>
  /\ hasYielded
  /\ Len(events) = 1

(***************************************************************************)
(* convertStreamChunkToGeminiResponse (part_001): one call per frame, the  *)
(* accumulators it returns handed to the next call                         *)
(***************************************************************************)
\* chunk.usage.x || accumulatedUsage.x, field by field
MergeUsage_001(accumulated, chunk) ==
  IF chunk.usage.present
    THEN [prompt_tokens |->
            IF chunk.usage.prompt_tokens # 0
              THEN chunk.usage.prompt_tokens ELSE accumulated.prompt_tokens,
          completion_tokens |->
            IF chunk.usage.completion_tokens # 0
              THEN chunk.usage.completion_tokens
              ELSE accumulated.completion_tokens,
          total_tokens |->
            IF chunk.usage.total_tokens # 0
              THEN chunk.usage.total_tokens ELSE accumulated.total_tokens]
    ELSE accumulated

\* `call_${Date.now()}`, the clock reading "0"
SynthesizedId_001 == <<"c", "a", "l", "l", "_", "0">>

\* one pass of the callback of delta.tool_calls.forEach: a new slot takes
\* the fragment's name and arguments; on an existing slot a non-empty name
\* replaces the name and the arguments are appended
AddFragment_001(arr, frag) ==
  IF IsMissing(arr, frag.index)
    THEN SetAt(arr, frag.index,
               [present |-> TRUE,
                id |-> IF frag.id # <<>> THEN frag.id ELSE SynthesizedId_001,
                name |-> frag.name, arguments |-> frag.arguments])
  ELSE LET old == arr[frag.index + 1]
       IN  SetAt(arr, frag.index,
                 [old EXCEPT
                    !.name = IF frag.name # <<>> THEN frag.name ELSE @,
                    !.arguments = @ \o frag.arguments])

RECURSIVE AddFragments_001(_, _)
AddFragments_001(arr, frags) ==
  IF frags = <<>> THEN arr
  ELSE AddFragments_001(AddFragment_001(arr, Head(frags)), Tail(frags))

\* JSON.parse(toolCall.function.arguments || '{}')
ParsedArguments_001(toolCall) ==
  JSONParse(IF toolCall.arguments = <<>> THEN <<"{", "}">>
            ELSE toolCall.arguments)

\* the callback of accumulatedToolCalls.map throws for some call (map does
\* not visit holes)
ParseThrows_001(arr) ==
  \E i \in 1..Len(arr) :
    arr[i].present /\ ParsedArguments_001(arr[i]) = SyntaxError

\* the indices of the array that are not holes, from i on
RECURSIVE PresentFrom_001(_, _)
PresentFrom_001(arr, i) ==
  IF i > Len(arr) THEN <<>>
  ELSE (IF arr[i].present THEN <<i - 1>> ELSE <<>>)
         \o PresentFrom_001(arr, i + 1)

\* the functionCall parts of accumulatedToolCalls.map(...)
CallParts_001(arr) ==
  LET slots == PresentFrom_001(arr, 1)
  IN  [k \in 1..Len(slots) |->
         FunctionCallPart(arr[slots[k] + 1].name,
                          ParsedArguments_001(arr[slots[k] + 1]))]

\* accumulatedUsage.prompt_tokens > 0 ? { ... } : undefined
UsageMetadata_001(accumulated) ==
  IF accumulated.prompt_tokens > 0
    THEN [set |-> TRUE,
          promptTokenCount |-> accumulated.prompt_tokens,
          candidatesTokenCount |-> accumulated.completion_tokens,
          totalTokenCount |-> accumulated.total_tokens]
  ELSE NoUsageMetadata

\* the response of one call that reaches its return statement
ConvertedChunk_001(chunk, chunkCount, toolCalls, usage) ==
  Response("converted",
           (IF chunk.content # <<>> THEN <<TextPart(chunk.content)>>
                                   ELSE <<>>)
             \o CallParts_001(toolCalls),
           IF IsFinished(chunk) THEN "STOP" ELSE Undefined,
           UsageMetadata_001(usage), chunkCount, PresentFrom_001(toolCalls, 1))

\* the call returns null: the caller keeps its accumulators
ConvertReturnsNull(chunk) ==
  /\ pc = "open"
  /\ Len(consumed) < MaxFrames
  /\ IsSkipped(chunk)
  /\ consumed' = Append(consumed, chunk)
  /\ UNCHANGED <<pc, promptContent, hasYielded, accumulatedToolCalls,
                 accumulatedUsage, accumulatedCompletionContent, events>>
  /\ UNCHANGED <<lifeVars, other, decVars>>
  /\ UNCHANGED pureVars

\* the call returns a response and the accumulators, or JSON.parse throws
\* out of it; the array was updated in place before that
ConvertChunk(chunk) ==
  /\ pc = "open"
  /\ Len(consumed) < MaxFrames
  /\ ~IsSkipped(chunk)
  /\ LET usage     == MergeUsage_001(accumulatedUsage, chunk)
         toolCalls == AddFragments_001(accumulatedToolCalls, chunk.tool_calls)
         throws    == ParseThrows_001(toolCalls)
     IN  /\ consumed' = Append(consumed, chunk)
         /\ accumulatedToolCalls' = toolCalls
         /\ accumulatedUsage' = IF throws THEN accumulatedUsage ELSE usage
         /\ events' =
              IF throws THEN events
              ELSE Append(events,
                          ConvertedChunk_001(chunk, Len(consumed) + 1,
                                             toolCalls, usage))
         /\ hasYielded' = (hasYielded \/ ~throws)
         /\ pc' = IF throws THEN "thrown" ELSE "open"
  /\ UNCHANGED <<promptContent, accumulatedCompletionContent>>
  /\ UNCHANGED <<lifeVars, other, decVars>>
  /\ UNCHANGED pureVars

\* frames of text and of tool-call fragments, and skipped frames
ConvertFrames ==
  SkippedFrames
    \cup {Frame("ok", c, r, <<>>, NoUsage) :
            c \in {<<>>, <<"a">>}, r \in {"", "stop"}}
    \cup {Frame("ok", <<>>, "", <<>>, Usage(1, 1, 2))}
    \cup ToolFrames

NextConvert ==
  \/ \E chunk \in ConvertFrames : ConvertReturnsNull(chunk)
  \/ \E chunk \in ConvertFrames : ConvertChunk(chunk)

SpecConvert == Init /\ [][NextConvert]_vars

\* C39: for every chunk sequence threaded through
\* convertStreamChunkToGeminiResponse the call returns a response or null
\* and never throws, also when the argument text accumulated so far is an
\* incomplete JSON prefix: a function call whose arguments do not parse
\* gets the empty object.
ConvertNeverThrows ==
  /\ pc # "thrown"
  /\ \A e \in 1..Len(events) : \A p \in 1..Len(events[e].parts) :
       events[e].parts[p].type = "functionCall" =>
         events[e].parts[p].args # SyntaxError

=============================================================================
